---- MODULE Spec2Model ----
(***************************************************************************)
(* GraphRAG question-answering pipeline of experiments/exp_005_amira:       *)
(* IntelligentEquestrianChatbot.answer_question and the components it       *)
(* drives (IntelligentSPARQLGenerator, GraphDBClient, LLMClient).           *)
(*                                                                           *)
(* Text is modelled at the level of lexemes: a Python str is a sequence of  *)
(* lexemes, each lexeme being one character that matters to the code        *)
(* (quote, backslash, braces, whitespace, the letters n and t after a       *)
(* backslash) or one word that the code treats as opaque.  No word lexeme   *)
(* contains a keyword, a fence or an escape inside it.                      *)
(***************************************************************************)
EXTENDS Integers, Sequences, FiniteSets, TLC

\* ------------------------------------------------------------------------
\* Lexemes
\* ------------------------------------------------------------------------
SP == " "
NL == "<NL>"
TAB == "<TAB>"
BSL == "<BACKSLASH>"
QUOTE == "<QUOTE>"
FENCE == "<FENCE>"
LBRACE == "{"
RBRACE == "}"

Whitespace == {SP, NL, TAB}

\* ------------------------------------------------------------------------
\* Python values: every value carries its type tag.
\* ------------------------------------------------------------------------
PyNone == [t |-> "none"]
PyStr(s) == [t |-> "str", s |-> s]
PyNum(n) == [t |-> "num", n |-> n]
PyBool(b) == [t |-> "bool", b |-> b]
PyList(items) == [t |-> "list", items |-> items]
PyDict(keys, vals) == [t |-> "dict", keys |-> keys, vals |-> vals]
EmptyDict == PyDict(<<>>, <<>>)

Min(a, b) == IF a <= b THEN a ELSE b

\* index of key k in dict d, 0 when absent
DictIndex(d, k) ==
    IF \E i \in 1..Len(d.keys) : d.keys[i] = k
    THEN CHOOSE i \in 1..Len(d.keys) : d.keys[i] = k
    ELSE 0

\* k in d
DictHas(d, k) == DictIndex(d, k) # 0

\* d[k]
DictGet(d, k) == d.vals[DictIndex(d, k)]

\* d[k] = v
DictSet(d, k, v) ==
    IF DictHas(d, k)
    THEN PyDict(d.keys, [d.vals EXCEPT ![DictIndex(d, k)] = v])
    ELSE PyDict(Append(d.keys, k), Append(d.vals, v))

\* the key a one-word str literal denotes
Key(name) == <<name>>

\* ------------------------------------------------------------------------
\* str methods
\* ------------------------------------------------------------------------
RECURSIVE lstrip(_)
lstrip(s) ==
    IF s # <<>> /\ Head(s) \in Whitespace THEN lstrip(Tail(s)) ELSE s

RECURSIVE rstrip(_)
rstrip(s) ==
    IF s # <<>> /\ s[Len(s)] \in Whitespace
    THEN rstrip(SubSeq(s, 1, Len(s) - 1))
    ELSE s

\* str.strip()
strip(s) == rstrip(lstrip(s))

\* str.find(sub, start) with 1-based positions; 0 when sub does not occur
Find(s, sub, start) ==
    LET hits == {i \in start..(Len(s) - Len(sub) + 1) :
                    SubSeq(s, i, i + Len(sub) - 1) = sub}
    IN IF hits = {} THEN 0 ELSE CHOOSE i \in hits : \A j \in hits : i <= j

\* sub in s
Contains(s, sub) == Find(s, sub, 1) # 0

\* str.split(sep): the list of parts
RECURSIVE split(_, _)
split(s, sep) ==
    LET i == Find(s, sep, 1)
    IN IF i = 0
       THEN <<s>>
       ELSE <<SubSeq(s, 1, i - 1)>> \o split(SubSeq(s, i + Len(sep), Len(s)), sep)

\* str.replace(old, new): left to right, non-overlapping
RECURSIVE replace(_, _, _)
replace(s, old, new) ==
    LET i == Find(s, old, 1)
    IN IF i = 0
       THEN s
       ELSE SubSeq(s, 1, i - 1) \o new
            \o replace(SubSeq(s, i + Len(old), Len(s)), old, new)

\* s[:n]
Slice(s, n) == SubSeq(s, 1, Min(n, Len(s)))

\* ------------------------------------------------------------------------
\* json.loads (strict decoder of the standard library), on lexemes
\* ------------------------------------------------------------------------
NumberLexemes == {"0", "7"}

ParseFail == [ok |-> FALSE, val |-> PyNone, pos |-> 0]
ParseOk(v, p) == [ok |-> TRUE, val |-> v, pos |-> p]

\* position of the first non-whitespace lexeme at or after i
RECURSIVE SkipWs(_, _)
SkipWs(s, i) ==
    IF i <= Len(s) /\ s[i] \in Whitespace THEN SkipWs(s, i + 1) ELSE i

\* body of a string literal, from the lexeme after the opening quote
RECURSIVE ParseString(_, _, _)
ParseString(s, i, acc) ==
    IF i > Len(s) THEN ParseFail
    ELSE IF s[i] = QUOTE THEN ParseOk(PyStr(acc), i + 1)
    ELSE IF s[i] \in {NL, TAB} THEN ParseFail
    ELSE IF s[i] = BSL THEN
        IF i + 1 > Len(s) THEN ParseFail
        ELSE IF s[i + 1] = "n" THEN ParseString(s, i + 2, Append(acc, NL))
        ELSE IF s[i + 1] = "t" THEN ParseString(s, i + 2, Append(acc, TAB))
        ELSE IF s[i + 1] = BSL THEN ParseString(s, i + 2, Append(acc, BSL))
        ELSE IF s[i + 1] = QUOTE THEN ParseString(s, i + 2, Append(acc, QUOTE))
        ELSE ParseFail
    ELSE ParseString(s, i + 1, Append(acc, s[i]))

RECURSIVE ParseValue(_, _)
RECURSIVE ParseElements(_, _, _)
RECURSIVE ParseMembers(_, _, _)

\* one JSON value starting at lexeme i
ParseValue(s, i) ==
    IF i > Len(s) THEN ParseFail
    ELSE IF s[i] = QUOTE THEN ParseString(s, i + 1, <<>>)
    ELSE IF s[i] = "null" THEN ParseOk(PyNone, i + 1)
    ELSE IF s[i] = "true" THEN ParseOk(PyBool(TRUE), i + 1)
    ELSE IF s[i] = "false" THEN ParseOk(PyBool(FALSE), i + 1)
    ELSE IF s[i] \in NumberLexemes THEN ParseOk(PyNum(s[i]), i + 1)
    ELSE IF s[i] = "[" THEN
        LET j == SkipWs(s, i + 1)
        IN IF j <= Len(s) /\ s[j] = "]"
           THEN ParseOk(PyList(<<>>), j + 1)
           ELSE ParseElements(s, j, <<>>)
    ELSE IF s[i] = LBRACE THEN
        LET j == SkipWs(s, i + 1)
        IN IF j <= Len(s) /\ s[j] = RBRACE
           THEN ParseOk(EmptyDict, j + 1)
           ELSE ParseMembers(s, j, EmptyDict)
    ELSE ParseFail

\* the elements of an array, from the first lexeme of an element
ParseElements(s, i, acc) ==
    LET v == ParseValue(s, i)
    IN IF ~v.ok THEN ParseFail
       ELSE LET j == SkipWs(s, v.pos)
                items == Append(acc, v.val)
            IN IF j > Len(s) THEN ParseFail
               ELSE IF s[j] = "]" THEN ParseOk(PyList(items), j + 1)
               ELSE IF s[j] = "," THEN ParseElements(s, SkipWs(s, j + 1), items)
               ELSE ParseFail

\* the members of an object, from the opening quote of a key
ParseMembers(s, i, acc) ==
    IF i > Len(s) \/ s[i] # QUOTE THEN ParseFail
    ELSE
      LET k == ParseString(s, i + 1, <<>>)
      IN IF ~k.ok THEN ParseFail
         ELSE LET c == SkipWs(s, k.pos)
              IN IF c > Len(s) \/ s[c] # ":" THEN ParseFail
                 ELSE LET v == ParseValue(s, SkipWs(s, c + 1))
                      IN IF ~v.ok THEN ParseFail
                         ELSE LET j == SkipWs(s, v.pos)
                                  d == DictSet(acc, k.val.s, v.val)
                              IN IF j > Len(s) THEN ParseFail
                                 ELSE IF s[j] = RBRACE THEN ParseOk(d, j + 1)
                                 ELSE IF s[j] = ","
                                      THEN ParseMembers(s, SkipWs(s, j + 1), d)
                                 ELSE ParseFail

\* json.loads(s): ok = FALSE stands for json.JSONDecodeError
json_loads(s) ==
    LET v == ParseValue(s, SkipWs(s, 1))
    IN IF v.ok /\ SkipWs(s, v.pos) = Len(s) + 1 THEN v ELSE ParseFail

\* ------------------------------------------------------------------------
\* Call results: a call returns a value or raises an exception
\* ------------------------------------------------------------------------
Return(v) == [raised |-> FALSE, exc |-> "", val |-> v]
Raise(e) == [raised |-> TRUE, exc |-> e, val |-> PyNone]

\* ------------------------------------------------------------------------
\* IntelligentSPARQLGenerator
\* ------------------------------------------------------------------------
\* re.IGNORECASE on the keywords the patterns name
Upper(lex) ==
    CASE lex = "select" -> "SELECT"
      [] lex = "prefix" -> "PREFIX"
      [] lex = "where" -> "WHERE"
      [] OTHER -> lex

\* first position >= start holding keyword kw, 0 when there is none
FindKeyword(s, kw, start) ==
    LET hits == {i \in start..Len(s) : Upper(s[i]) = kw}
    IN IF hits = {} THEN 0 ELSE CHOOSE i \in hits : \A j \in hits : i <= j

\* WHERE\s*\{ : position of the brace of the first match at or after start
FindWhereBrace(s, start) ==
    LET hits == {i \in start..Len(s) :
                    /\ Upper(s[i]) = "WHERE"
                    /\ SkipWs(s, i + 1) <= Len(s)
                    /\ s[SkipWs(s, i + 1)] = LBRACE}
    IN IF hits = {} THEN 0
       ELSE SkipWs(s, (CHOOSE i \in hits : \A j \in hits : i <= j) + 1)

\* (SELECT.*?WHERE\s*\{.*?\}) anchored at a SELECT at position sel:
\* the position of the last lexeme of the match, 0 when it does not match
SelectMatchEnd(s, sel) ==
    LET brace == FindWhereBrace(s, sel + 1)
    IN IF brace = 0 THEN 0 ELSE Find(s, <<RBRACE>>, brace + 1)

\* re.search(r'(PREFIX.*?SELECT.*?WHERE\s*\{.*?\})', text, DOTALL | IGNORECASE)
SearchPrefixPattern(text) ==
    LET pre == FindKeyword(text, "PREFIX", 1)
        sel == IF pre = 0 THEN 0 ELSE FindKeyword(text, "SELECT", pre + 1)
        end == IF sel = 0 THEN 0 ELSE SelectMatchEnd(text, sel)
    IN IF end = 0 THEN [found |-> FALSE, span |-> <<>>]
       ELSE [found |-> TRUE, span |-> SubSeq(text, pre, end)]

\* re.search(r'(SELECT.*?WHERE\s*\{.*?\})', text, DOTALL | IGNORECASE)
SearchSelectPattern(text) ==
    LET sel == FindKeyword(text, "SELECT", 1)
        end == IF sel = 0 THEN 0 ELSE SelectMatchEnd(text, sel)
    IN IF end = 0 THEN [found |-> FALSE, span |-> <<>>]
       ELSE [found |-> TRUE, span |-> SubSeq(text, sel, end)]

\* the basic fallback query without its LIMIT clause
DefaultQueryUnlimited ==
    <<NL, "PREFIX", SP, "horses:", SP, "<namespace>", NL,
      "PREFIX", SP, "rdf:", SP, "<rdf-syntax-ns>", NL, NL,
      "SELECT", SP, "?subject", SP, "?predicate", SP, "?object", NL,
      "WHERE", SP, LBRACE, NL,
      SP, SP, "?subject", SP, "?predicate", SP, "?object", SP, ".", NL,
      RBRACE, NL>>

\* the basic fallback query
DefaultQuery ==
    <<NL, "PREFIX", SP, "horses:", SP, "<namespace>", NL,
      "PREFIX", SP, "rdf:", SP, "<rdf-syntax-ns>", NL, NL,
      "SELECT", SP, "?subject", SP, "?predicate", SP, "?object", NL,
      "WHERE", SP, LBRACE, NL,
      SP, SP, "?subject", SP, "?predicate", SP, "?object", SP, ".", NL,
      RBRACE, NL, "LIMIT", SP, "10", NL>>

\* query.replace("\\n", "\n").replace("\\t", "\t")
Unescape(q) == replace(replace(q, <<BSL, "n">>, <<NL>>), <<BSL, "t">>, <<TAB>>)

\* the extraction without the basic fallback query
ExtractWithoutDefault(text) ==
    LET m1 == SearchPrefixPattern(text)
        m2 == SearchSelectPattern(text)
    IN IF m1.found THEN Unescape(strip(m1.span))
       ELSE IF m2.found THEN Unescape(strip(m2.span))
       ELSE <<>>

\* the extraction with the two patterns tried in the other order
ExtractSelectFirst(text) ==
    LET m1 == SearchPrefixPattern(text)
        m2 == SearchSelectPattern(text)
    IN IF m2.found THEN Unescape(strip(m2.span))
       ELSE IF m1.found THEN Unescape(strip(m1.span))
       ELSE DefaultQuery

_extract_sparql_fallback(text) ==
    LET m1 == SearchPrefixPattern(text)
        m2 == SearchSelectPattern(text)
    IN IF m1.found THEN Unescape(strip(m1.span))
       ELSE IF m2.found THEN Unescape(strip(m2.span))
       ELSE DefaultQuery

K_sparql_query == Key("sparql_query")
K_entities_used == Key("entities_used")
K_relations_used == Key("relations_used")
K_explanation == Key("explanation")

\* markdown removal that takes the first fenced block whatever its tag
StripMarkdownFirstFence(cleaned) ==
    IF Contains(cleaned, <<FENCE>>)
    THEN strip(split(split(cleaned, <<FENCE>>)[2], <<FENCE>>)[1])
    ELSE cleaned

\* "Remove markdown if present"
StripMarkdown(cleaned) ==
    IF Contains(cleaned, <<FENCE, "json">>)
    THEN strip(split(split(cleaned, <<FENCE, "json">>)[2], <<FENCE>>)[1])
    ELSE IF Contains(cleaned, <<FENCE>>)
    THEN strip(split(split(cleaned, <<FENCE>>)[2], <<FENCE>>)[1])
    ELSE cleaned

\* "Unescape newlines and tabs" on a parsed dict
UnescapeQueryField(result) ==
    IF DictHas(result, K_sparql_query) /\ DictGet(result, K_sparql_query).t = "str"
    THEN DictSet(result, K_sparql_query,
                 PyStr(Unescape(DictGet(result, K_sparql_query).s)))
    ELSE result

\* the filling that overwrites a field the object has
FillDefaultAlways(result, k, v) == DictSet(result, k, v)

\* result.setdefault-style filling of one absent field
FillDefault(result, k, v) == IF DictHas(result, k) THEN result ELSE DictSet(result, k, v)

\* "Validate required fields" on a parsed dict, after unescaping
ValidateFields(result, llm_response) ==
    IF DictHas(result, K_sparql_query) /\ DictGet(result, K_sparql_query).t # "str"
    THEN Raise("AttributeError")
    ELSE
      LET r1 == IF ~DictHas(result, K_sparql_query)
                   \/ strip(DictGet(result, K_sparql_query).s) = <<>>
                THEN DictSet(result, K_sparql_query,
                             PyStr(_extract_sparql_fallback(llm_response)))
                ELSE result
          r2 == FillDefault(r1, K_entities_used, PyList(<<>>))
          r3 == FillDefault(r2, K_relations_used, PyList(<<>>))
          r4 == FillDefault(r3, K_explanation, PyStr(<<"Requete generee">>))
      IN Return(r4)

\* the descriptor built when json.loads raises JSONDecodeError
FallbackDescriptor(llm_response) ==
    PyDict(<<K_sparql_query, K_entities_used, K_relations_used, K_explanation>>,
           <<PyStr(_extract_sparql_fallback(llm_response)), PyList(<<>>),
             PyList(<<>>), PyStr(<<"Requete extraite (JSON invalide)">>)>>)

\* _parse_llm_response once json.loads has returned or raised JSONDecodeError
HandleParsed(parsed, llm_response) ==
    IF ~parsed.ok THEN Return(FallbackDescriptor(llm_response))
    ELSE IF parsed.val.t # "dict" THEN Raise("TypeError")
    ELSE ValidateFields(UnescapeQueryField(parsed.val), llm_response)

_parse_llm_response(llm_response) ==
    HandleParsed(json_loads(StripMarkdown(strip(llm_response))), llm_response)

generate_sparql(llm_result) ==
    IF llm_result.raised THEN Raise(llm_result.exc)
    ELSE _parse_llm_response(llm_result.val)

\* ------------------------------------------------------------------------
\* Python built-ins the orchestrator applies to dynamically typed values
\* ------------------------------------------------------------------------
\* bool(v)
Truthy(v) ==
    CASE v.t = "none" -> FALSE
      [] v.t = "bool" -> v.b
      [] v.t = "num" -> v.n # "0"
      [] v.t = "str" -> v.s # <<>>
      [] v.t = "list" -> v.items # <<>>
      [] v.t = "dict" -> v.keys # <<>>

\* k in v, for a one-word str k
PyIn(k, v) ==
    CASE v.t = "dict" -> Return(PyBool(DictHas(v, Key(k))))
      [] v.t = "list" -> Return(PyBool(\E i \in 1..Len(v.items) : v.items[i] = PyStr(Key(k))))
      [] v.t = "str" -> Return(PyBool(Contains(v.s, Key(k))))
      [] OTHER -> Raise("TypeError")

\* v[k], for a one-word str k
Subscript(v, k) ==
    CASE v.t = "dict" -> IF DictHas(v, Key(k)) THEN Return(DictGet(v, Key(k)))
                         ELSE Raise("KeyError")
      [] OTHER -> Raise("TypeError")

\* len(v)
PyLen(v) ==
    CASE v.t = "list" -> Return(Len(v.items))
      [] v.t = "str" -> Return(Len(v.s))
      [] v.t = "dict" -> Return(Len(v.keys))
      [] OTHER -> Raise("TypeError")

\* repr(v) and str(v)
RECURSIVE Repr(_)
RECURSIVE ReprItems(_, _)
RECURSIVE ReprMembers(_, _)
Repr(v) ==
    CASE v.t = "none" -> <<"None">>
      [] v.t = "bool" -> IF v.b THEN <<"True">> ELSE <<"False">>
      [] v.t = "num" -> <<v.n>>
      [] v.t = "str" -> <<"'">> \o v.s \o <<"'">>
      [] v.t = "list" -> <<"[">> \o ReprItems(v.items, 1) \o <<"]">>
      [] v.t = "dict" -> <<LBRACE>> \o ReprMembers(v, 1) \o <<RBRACE>>
ReprItems(items, i) ==
    IF i > Len(items) THEN <<>>
    ELSE (IF i > 1 THEN <<",", SP>> ELSE <<>>) \o Repr(items[i]) \o ReprItems(items, i + 1)
ReprMembers(d, i) ==
    IF i > Len(d.keys) THEN <<>>
    ELSE (IF i > 1 THEN <<",", SP>> ELSE <<>>)
         \o <<"'">> \o d.keys[i] \o <<"'", ":", SP>> \o Repr(d.vals[i])
         \o ReprMembers(d, i + 1)

PyStrOf(v) == IF v.t = "str" THEN v.s ELSE Repr(v)

\* ', '.join(v) if v else 'N/A'  raises?
JoinRaises(v) ==
    /\ Truthy(v)
    /\ \/ v.t \in {"num", "bool"}
       \/ v.t = "list" /\ \E i \in 1..Len(v.items) : v.items[i].t # "str"

\* ------------------------------------------------------------------------
\* LLMClient and GraphDBClient
\* ------------------------------------------------------------------------
MAX_RETRIES == 3

\* the retry loop that goes on to the next attempt after a successful one
GenerateLocalIgnoringSuccess(limit, att, http) ==
    IF att < limit - 1
    THEN [done |-> FALSE, text |-> <<>>, attempt |-> att + 1]
    ELSE [done |-> TRUE, text |-> IF http.ok THEN http.content ELSE <<>>,
          attempt |-> att]

\* one pass of the retry loop of _generate_local, given the value limit of
\* MAX_RETRIES and the outcome of the HTTP request of attempt number att
\* (0-based).  FrenchLLMClient.generate only prepends its system context and
\* passes the result through.  The return "" after the loop (line 85) is reached
\* only when the loop makes no pass.
_generate_local(limit, att, http) ==
    IF http.ok THEN [done |-> TRUE, text |-> http.content, attempt |-> att]
    ELSE IF att < limit - 1
         THEN [done |-> FALSE, text |-> <<>>, attempt |-> att + 1]
         ELSE [done |-> TRUE, text |-> <<>>, attempt |-> att]

\* {"results": {"bindings": []}}
EmptyResult ==
    PyDict(<<Key("results")>>, <<PyDict(<<Key("bindings")>>, <<PyList(<<>>)>>)>>)

\* GraphDBClient.query with the request errors left to the caller
QueryRaising(http) ==
    IF http.kind = "ok" THEN Return(http.body) ELSE Raise(http.kind)

\* GraphDBClient.query, given the outcome of the HTTP request
query(http) ==
    IF http.kind = "ok" THEN Return(http.body) ELSE Return(EmptyResult)

\* v[0] (of a str, its first lexeme)
Item0(v) ==
    CASE v.t = "list" -> IF v.items = <<>> THEN Raise("IndexError") ELSE Return(v.items[1])
      [] v.t = "str" -> IF v.s = <<>> THEN Raise("IndexError") ELSE Return(PyStr(<<v.s[1]>>))
      [] v.t = "dict" -> Raise("KeyError")
      [] OTHER -> Raise("TypeError")

\* test_connection that does not read the count
TestConnectionTrusting(result) ==
    LET has == PyIn("results", result)
    IN IF ~Truthy(result) \/ has.raised THEN FALSE ELSE has.val.b

\* GraphDBClient.test_connection, given what self.query returned: the bare
\* except swallows whatever the subscripts raise
test_connection(result) ==
    LET has == PyIn("results", result)
        inner == Subscript(result, "results")
        b == IF inner.raised THEN inner ELSE Subscript(inner.val, "bindings")
        first == IF b.raised THEN b ELSE Item0(b.val)
        count == IF first.raised THEN first ELSE Subscript(first.val, "count")
        value == IF count.raised THEN count ELSE Subscript(count.val, "value")
    IN IF ~Truthy(result) \/ has.raised THEN FALSE
       ELSE IF ~has.val.b THEN FALSE
       ELSE ~value.raised

\* ------------------------------------------------------------------------
\* Inputs: questions, completion texts, store responses, formatted contexts
\* ------------------------------------------------------------------------
MaxRows == 2
MaxOverrun == 2
ExcerptLen == 200

Questions == {<<"Quels", SP, "chevaux", "?">>, <<"What", SP, "sensors", "?">>}

\* a JSON string literal and a "key": value member, as a completion writes them
JStr(s) == <<QUOTE>> \o s \o <<QUOTE>>
JField(name, value) == JStr(<<name>>) \o <<":", SP>> \o value
JObject1(f1) == <<LBRACE>> \o f1 \o <<RBRACE>>
JObject2(f1, f2) == <<LBRACE>> \o f1 \o <<",", NL>> \o f2 \o <<RBRACE>>
JObject4(f1, f2, f3, f4) ==
    <<LBRACE, NL>> \o f1 \o <<",", NL>> \o f2 \o <<",", NL>> \o f3 \o <<",", NL>> \o f4
    \o <<NL, RBRACE>>

\* a query as the prompt asks for it: newlines written as backslash-n
EscapedQuery ==
    <<"SELECT", SP, "?sensor", BSL, "n", "WHERE", SP, LBRACE, SP, "?horse", SP,
      "isAttachedTo", SP, "?sensor", SP, RBRACE>>
\* the same with the backslashes doubled, as models frequently write it
DoubleEscapedQuery ==
    <<"SELECT", SP, "?sensor", BSL, BSL, "n", "WHERE", SP, LBRACE, SP, "?horse", SP,
      "isAttachedTo", SP, "?sensor", SP, RBRACE>>

WellFormedCompletion ==
    JObject4(JField("sparql_query", JStr(DoubleEscapedQuery)),
             JField("entities_used",
                    <<"[">> \o JStr(<<"Horse">>) \o <<",", SP>> \o JStr(<<"Sensor">>) \o <<"]">>),
             JField("relations_used", <<"[">> \o JStr(<<"isAttachedTo">>) \o <<"]">>),
             JField("explanation", JStr(<<"Capteurs", SP, "des", SP, "chevaux">>)))
QueryOnlyCompletion == JObject1(JField("sparql_query", JStr(EscapedQuery)))
FencedCompletion == <<FENCE, "json", NL>> \o QueryOnlyCompletion \o <<NL, FENCE>>
ProseCompletion == <<"Je", SP, "ne", SP, "sais", SP, "pas">>
ProseWithQueryCompletion ==
    <<"Voici:", SP, "select", SP, "?h", SP, "where", SP, LBRACE, SP, "?h", SP, "a",
      SP, "Horse", SP, RBRACE, SP, "fin">>
TruncatedCompletion == <<LBRACE>> \o JStr(<<"sparql_query">>) \o <<":">>
BlankQueryCompletion == JObject1(JField("sparql_query", JStr(<<SP, SP>>)))
MissingQueryCompletion == JObject1(JField("explanation", JStr(<<"rien">>)))
ListCompletion == <<"[", "7", "]">>
NumberCompletion == <<"7">>
StringCompletion == JStr(<<"sparql_query">>)
NullCompletion == <<"null">>
NumberQueryCompletion == JObject1(JField("sparql_query", <<"7">>))
NullQueryCompletion == JObject1(JField("sparql_query", <<"null">>))
NumberEntitiesCompletion ==
    JObject2(JField("sparql_query", JStr(EscapedQuery)), JField("entities_used", <<"7">>))

\* texts the completion service may return for the generation prompt
GenerationTexts ==
    {<<>>, WellFormedCompletion, QueryOnlyCompletion, FencedCompletion, ProseCompletion,
     ProseWithQueryCompletion, TruncatedCompletion, BlankQueryCompletion,
     MissingQueryCompletion, ListCompletion, NumberCompletion, StringCompletion,
     NullCompletion, NumberQueryCompletion, NullQueryCompletion,
     NumberEntitiesCompletion}

\* ------------------------------------------------------------------------
\* Completion texts for direct calls of generate_sparql
\* ------------------------------------------------------------------------
MaxQueryLen == 3
MaxSegments == 3

\* the non-empty sequences over S of length at most n
SeqsUpTo(S, n) == UNION {[1..k -> S] : k \in 1..n}

\* query texts: a token, whitespace, and the lexemes of the escape sequences
Queries == SeqsUpTo({"?x", NL, TAB, BSL, "n", "t"}, MaxQueryLen)

\* "Utilise \\n pour les retours a ligne": the writer of the completion puts the
\* two characters backslash-n for each newline of the query (likewise tabs)
EscapeQuery(q) == replace(replace(q, <<NL>>, <<BSL, "n">>), <<TAB>>, <<BSL, "t">>)

\* "Le JSON doit etre parsable directement": a JSON string literal, with the
\* escapes JSON requires for backslash, quote, newline and tab
RECURSIVE JsonEscape(_)
JsonEscape(s) ==
    IF s = <<>> THEN <<>>
    ELSE (CASE Head(s) = BSL -> <<BSL, BSL>>
            [] Head(s) = QUOTE -> <<BSL, QUOTE>>
            [] Head(s) = NL -> <<BSL, "n">>
            [] Head(s) = TAB -> <<BSL, "t">>
            [] OTHER -> <<Head(s)>>) \o JsonEscape(Tail(s))
JsonString(s) == <<QUOTE>> \o JsonEscape(s) \o <<QUOTE>>

\* the completion that carries query q as the prompt asks
RoundTripCompletion(q) == JObject1(JField("sparql_query", JsonString(EscapeQuery(q))))

\* a JSON object of any number of members
RECURSIVE JoinFields(_)
JoinFields(fs) ==
    IF fs = <<>> THEN <<>>
    ELSE IF Len(fs) = 1 THEN fs[1]
    ELSE fs[1] \o <<",", SP>> \o JoinFields(Tail(fs))
JObject(fs) == <<LBRACE>> \o JoinFields(fs) \o <<RBRACE>>

\* objects in which each field of the response format is left out or written
\* with some value
ObjectCompletions ==
    LET QueryFields ==
            {<<>>, <<JField("sparql_query", JStr(EscapedQuery))>>,
             <<JField("sparql_query", JStr(<<SP, SP>>))>>,
             <<JField("sparql_query", JStr(<<BSL, BSL, "n">>))>>}
        EntityFields ==
            {<<>>, <<JField("entities_used", <<"[">> \o JStr(<<"Horse">>) \o <<"]">>)>>,
             <<JField("entities_used", <<"7">>)>>}
        RelationFields ==
            {<<>>, <<JField("relations_used", <<"[", "]">>)>>,
             <<JField("relations_used", <<"null">>)>>}
        ExplanationFields ==
            {<<>>, <<JField("explanation", JStr(<<"Capteurs">>))>>,
             <<JField("explanation", JStr(<<>>))>>}
    IN {JObject(q \o e \o r \o x) :
           q \in QueryFields, e \in EntityFields, r \in RelationFields,
           x \in ExplanationFields}

\* completions in markdown fences: json-tagged, untagged, with prose around,
\* and with a second fenced block of the other kind before or after
Tagged(t) == <<FENCE, "json", NL>> \o t \o <<NL, FENCE>>
Untagged(t) == <<FENCE, NL>> \o t \o <<NL, FENCE>>
FencedObjects == {QueryOnlyCompletion, WellFormedCompletion}
OtherBlocks ==
    {JObject1(JField("sparql_query", JStr(<<"ASK", SP, LBRACE, SP, RBRACE>>))),
     <<"curl", SP, "localhost">>}
Wrappings(t) ==
    {Tagged(t), Untagged(t),
     <<"Voici", SP, ":", NL>> \o Tagged(t) \o <<NL, "Bonne", SP, "chance">>,
     <<"Voici", SP, ":", NL>> \o Untagged(t)}
    \cup {Untagged(o) \o <<NL>> \o Tagged(t) : o \in OtherBlocks}
    \cup {Tagged(t) \o <<NL>> \o Untagged(o) : o \in OtherBlocks}

\* prose completions: every sequence of at most MaxSegments of these pieces
RECURSIVE Concat(_)
Concat(ss) == IF ss = <<>> THEN <<>> ELSE Head(ss) \o Concat(Tail(ss))
SegmentTexts ==
    LET Segments ==
            {<<"Voici", SP>>,
             <<"PREFIX", SP, "h:", SP, "<ns>", NL>>,
             <<"prefix", SP, "r:", SP, "<rdf>", BSL, "n">>,
             <<"SELECT", SP, "?a", SP>>,
             <<"select", SP, "?b", BSL, "n", "where", NL, LBRACE, BSL, "t", "?b", SP,
               "a", SP, "h:Horse", RBRACE, SP>>,
             <<"WHERE", SP, LBRACE, SP, "?a", SP, "?p", SP, "?o", SP, RBRACE, SP>>,
             <<"WHERE", SP, LBRACE, SP, "?a", SP>>,
             <<"WHERE", SP, "?a", SP>>,
             <<RBRACE, SP>>}
    IN {Concat(ss) : ss \in SeqsUpTo(Segments, MaxSegments)}

\* the texts of the pipeline, queries written as the prompt asks and written
\* between quotes as they are, objects, fenced objects, prose, and prose holding
\* a query whose WHERE block has nested brace groups
DirectTexts ==
    LET Optional == <<"OPTIONAL", SP, LBRACE, SP, "?a", SP, "?p", SP, "?o", SP, RBRACE>>
        Nested ==
            {<<"SELECT", SP, "?a", SP, "WHERE", SP, LBRACE, SP, "?a", SP, "a", SP,
               "h:Horse", SP>> \o Optional \o <<SP, RBRACE>>,
             <<"SELECT", SP, "?a", SP, "WHERE", SP, LBRACE, SP>> \o Optional \o <<SP>>
                 \o Optional \o <<SP, RBRACE>>,
             <<"SELECT", SP, "?a", SP, "WHERE", SP, LBRACE, SP, LBRACE, SP>> \o Optional
                 \o <<SP, RBRACE, SP, RBRACE>>}
        Before == {<<>>, <<"Voici", SP>>, <<"PREFIX", SP, "h:", SP, "<ns>", NL>>}
        After == {<<>>, <<SP, "LIMIT", SP, "10">>, <<NL, "Bonne", SP, "chance">>}
    IN GenerationTexts \cup {RoundTripCompletion(q) : q \in Queries}
       \cup {JObject1(JField("sparql_query", JStr(q))) : q \in Queries}
       \cup ObjectCompletions \cup UNION {Wrappings(t) : t \in FencedObjects}
       \cup SegmentTexts
       \cup {b \o n \o a : b \in Before, n \in Nested, a \in After}

\* texts the completion service may return for the synthesis prompt
SynthesisTexts == {<<>>, <<"Dakota", SP, "porte", SP, "un", SP, "capteur", ".">>}

\* exceptions a substituted collaborator may raise
StubExceptions == {"RuntimeError", "ConnectionError"}

\* outcomes of one HTTP request to LM Studio
HttpFailures == {"ConnectionError", "Timeout", "HTTPError"}
HttpCompletion(text) == [ok |-> TRUE, err |-> "", content |-> text]
HttpCompletionFailure(e) == [ok |-> FALSE, err |-> e, content |-> <<>>]

\* one binding of a SELECT response
Row(i) ==
    PyDict(<<Key("horse")>>,
           <<PyDict(<<Key("type"), Key("value")>>,
                    <<PyStr(<<"literal">>), PyStr(<<"Dakota", ToString(i)>>)>>)>>)
SelectResult(n) ==
    PyDict(<<Key("head"), Key("results")>>,
           <<EmptyDict, PyDict(<<Key("bindings")>>, <<PyList([i \in 1..n |-> Row(i)])>>)>>)
\* the response of an ASK query has no 'results' key
AskResult == PyDict(<<Key("head"), Key("boolean")>>, <<EmptyDict, PyBool(TRUE)>>)
NoBindingsResult == PyDict(<<Key("results")>>, <<EmptyDict>>)

\* values the executor may hand back (JSON bodies of the store, or arbitrary
\* values of a substituted executor)
ExecValues ==
    <<PyNone, EmptyDict, AskResult, NoBindingsResult, PyNum("7")>>
    \o [n \in 1..(MaxRows + 1) |-> SelectResult(n - 1)]

\* bodies the store may answer the count query with: those above, and results
\* whose bindings are one or two of these rows
StoreBodies ==
    LET CountRow(n) ==
            PyDict(<<Key("count")>>,
                   <<PyDict(<<Key("type"), Key("value")>>,
                            <<PyStr(<<"literal">>), PyStr(<<n>>)>>)>>)
        Rows == <<CountRow("7"), CountRow("0"), Row(1),
                  PyDict(<<Key("count")>>, <<PyStr(<<"7">>)>>),
                  PyDict(<<Key("count")>>, <<EmptyDict>>),
                  PyStr(<<"count">>)>>
        Bound(items) ==
            PyDict(<<Key("head"), Key("results")>>,
                   <<EmptyDict, PyDict(<<Key("bindings")>>, <<items>>)>>)
        n == Len(Rows)
    IN ExecValues
       \o <<PyList(<<PyStr(Key("results"))>>), PyStr(<<"no", SP, "results">>),
            Bound(PyNone), Bound(EmptyDict), Bound(PyStr(<<"count">>))>>
       \o [i \in 1..n |-> Bound(PyList(<<Rows[i]>>))]
       \o [k \in 1..(n * n) |->
              Bound(PyList(<<Rows[((k - 1) \div n) + 1], Rows[((k - 1) % n) + 1]>>))]

\* outcomes of the HTTP request of GraphDBClient.query
GraphDBFailures == {"ConnectionError", "Timeout", "HTTPError", "JSONDecodeError"}
HttpResponse(body) == [kind |-> "ok", body |-> body]
HttpFailure(e) == [kind |-> e, body |-> PyNone]

\* texts ContextBuilder.format_results may return
NumberedText(n) == [i \in 1..n |-> ToString(i)]
ContextTexts ==
    {<<"Aucun", SP, "resultat">>, NumberedText(ExcerptLen)}
    \cup {NumberedText(ExcerptLen + k) : k \in 1..MaxOverrun}

\* ------------------------------------------------------------------------
\* IntelligentEquestrianChatbot: state of one answer_question invocation
\* ------------------------------------------------------------------------
VARIABLES
    pc,              \* position in answer_question
    llm_impl,        \* object bound to self.llm
    graphdb_impl,    \* object bound to self.graphdb
    ontology_summary, \* self.ontology_summary of the generator
    thread,          \* the thread that is running
    suspended,       \* the frame of the thread that is not running, if there is one
    question,        \* argument
    verbose,         \* argument
    attempt,         \* loop variable of LLMClient._generate_local
    llm_response,    \* generate_sparql: text the completion service returned
    sparql_query,    \* locals of answer_question ...
    entities_used,
    relations_used,
    explanation,
    results,
    bindings,
    results_count,   \* -1 while unassigned
    context,
    user_prompt,     \* _generate_answer: prompt sent to the completion service
    answer,
    outcome,         \* the dict answer_question returns
    calls,           \* calls issued during the invocation
    hist,            \* what each collaborator did during the invocation
    responses,       \* what each collaborator returned or raised during the invocation
    descriptor,      \* what a direct call of generate_sparql returned or raised
    max_retries,     \* config.MAX_RETRIES as read from the environment
    http_log,        \* outcomes of the HTTP requests of a direct call of LLMClient.generate
    client_result,   \* what that call returned or raised
    store_http,      \* outcome of the HTTP request of a direct call of GraphDBClient
    store_result,    \* what GraphDBClient.query returned or raised in that call
    connected,       \* what GraphDBClient.test_connection returned or raised
    session_pc,      \* position in __main__ of intelligent_chatbot.py and in chat()
    args,            \* the parsed command line: --question and --quiet
    chat_line,       \* chat(): what input() returned last
    chat_kind,       \* chat(): how the loop took the last input
    invoked,         \* chat(): invocations of answer_question for the last input
    reported,        \* chat(): an exception was reported for the last input
    exit_status,     \* status the process exited with, -1 while it runs
    printed,         \* what __main__ itself printed at the end
    rdf_graph,       \* RDFLLMPipeline: the triples of self.graph, in iteration order
    rdf_op,          \* RDFLLMPipeline: the method called last
    rdf_arg,         \* its limit argument and what its collaborator did
    rdf_result       \* what it returned or raised

genVars == <<llm_response, sparql_query, entities_used, relations_used, explanation>>
execVars == <<results, bindings, results_count>>
implVars == <<llm_impl, graphdb_impl, ontology_summary>>
argVars == <<thread, question, verbose>>
directVars == <<descriptor, max_retries, http_log, client_result>>
storeVars == <<store_http, store_result, connected>>
sessionVars ==
    <<session_pc, args, chat_line, chat_kind, invoked, reported, exit_status, printed>>
rdfVars == <<rdf_graph, rdf_op, rdf_arg, rdf_result>>
toolVars == <<storeVars, sessionVars, rdfVars>>
\* what lies outside the frame of the running invocation
outsideVars == <<implVars, directVars, toolVars, suspended>>
vars == <<pc, argVars, attempt, genVars, execVars, context, user_prompt,
          answer, outcome, calls, hist, responses, outsideVars>>

Pending == [pending |-> TRUE]

NoCalls ==
    [generate_sparql |-> 0, llm_generate |-> 0, llm_http |-> 0, graphdb_query |-> 0,
     format_results |-> 0, generate_answer |-> 0]

NoHist ==
    [llm_gen |-> "-", gen |-> "-", exec |-> "-", exec_http |-> "-", fmt |-> "-",
     llm_synth |-> "-", synth |-> "-"]

\* no call has been made
NotCalled == [raised |-> FALSE, exc |-> "-", val |-> PyNone]

\* a collaborator that returns a text has not been called; the response of
\* such a collaborator, which carries no text when it is an exception
NoText == [NotCalled EXCEPT !.val = <<>>]
TextResponse(r) == IF r.raised THEN [r EXCEPT !.val = <<>>] ELSE r

NoResponses == [gen |-> NoText, exec |-> NotCalled, fmt |-> NoText, synth |-> NoText]

\* there is no second thread
NoThread == [thread |-> 0]

\* the text _create_ontology_summary returns, by its title
OntologySummary == <<"# ONTOLOGIE EQUESTRE - STRUCTURE COMPLETE">>

\* the objects the constructors build, used by one thread
Constructed ==
    /\ ontology_summary = OntologySummary
    /\ thread = 1
    /\ suspended = NoThread

\* no direct call of the parser or of the completion client is under way
NoDirectCall ==
    /\ descriptor = NotCalled
    /\ max_retries = MAX_RETRIES
    /\ http_log = <<>>
    /\ client_result = NotCalled

\* no method of the graph client has been called directly
NoStoreCall ==
    /\ store_http = HttpFailure("-")
    /\ store_result = NotCalled
    /\ connected = NotCalled

\* the program intelligent_chatbot.py is not running
NothingPrinted == [kind |-> "-", text |-> <<>>]
NoSession ==
    /\ session_pc = "off"
    /\ args = [question |-> PyNone, quiet |-> FALSE]
    /\ chat_line = <<>>
    /\ chat_kind = "-"
    /\ invoked = 0
    /\ reported = FALSE
    /\ exit_status = -1
    /\ printed = NothingPrinted

\* no RDFLLMPipeline has been built
NoRdfArg == [limit |-> 0, outcome |-> "-"]
NoRdfPipeline ==
    /\ rdf_graph = <<>>
    /\ rdf_op = "-"
    /\ rdf_arg = NoRdfArg
    /\ rdf_result = NotCalled

NoTools == NoStoreCall /\ NoSession /\ NoRdfPipeline

\* no invocation of answer_question has been made yet
NoInvocation ==
    /\ question = <<>>
    /\ verbose = FALSE
    /\ attempt = 0
    /\ sparql_query = PyNone
    /\ entities_used = PyNone
    /\ relations_used = PyNone
    /\ explanation = PyNone
    /\ results = PyNone
    /\ bindings = PyNone
    /\ results_count = -1
    /\ context = <<>>
    /\ user_prompt = <<>>
    /\ answer = <<>>
    /\ outcome = Pending
    /\ calls = NoCalls
    /\ hist = NoHist
    /\ responses = NoResponses

Init ==
    /\ pc = "idle"
    /\ llm_impl \in {"FrenchLLMClient", "Stub"}
    /\ graphdb_impl \in {"GraphDBClient", "Stub"}
    /\ Constructed
    /\ llm_response = <<>>
    /\ NoInvocation
    /\ NoDirectCall
    /\ NoTools

\* the three Failure dicts and the Success dict
\* the Failure dict of STEP 1 built as those of STEP 2 are, with a query entry
GenerationFailureWithQuery(e, q) ==
    [success |-> FALSE, error |-> <<"Erreur lors de la generation SPARQL:", e>>,
     question |-> q, sparql_query |-> PyNone]
GenerationFailure(e, q) ==
    [success |-> FALSE, error |-> <<"Erreur lors de la generation SPARQL:", e>>,
     question |-> q]
\* the Failure dict of the early return of STEP 2 without the query text
NoResultsFailureWithoutQuery(q, sq) ==
    [success |-> FALSE, error |-> <<"Pas de resultats de GraphDB">>, question |-> q]
NoResultsFailure(q, sq) ==
    [success |-> FALSE, error |-> <<"Pas de resultats de GraphDB">>, question |-> q,
     sparql_query |-> sq]
ExecutionFailureWithoutQuery(e, q, sq) ==
    [success |-> FALSE, error |-> <<"Erreur GraphDB:", e>>, question |-> q]
ExecutionFailure(e, q, sq) ==
    [success |-> FALSE, error |-> <<"Erreur GraphDB:", e>>, question |-> q,
     sparql_query |-> sq]
\* the Success dict without the raw result set
SuccessWithoutRawResults(q, sq, eu, ru, ex, rc, ctx, ans, raw) ==
    [success |-> TRUE, question |-> q, sparql_query |-> sq, entities_used |-> eu,
     relations_used |-> ru, explanation |-> ex, results_count |-> rc, context |-> ctx,
     answer |-> ans]
Success(q, sq, eu, ru, ex, rc, ctx, ans, raw) ==
    [success |-> TRUE, question |-> q, sparql_query |-> sq, entities_used |-> eu,
     relations_used |-> ru, explanation |-> ex, results_count |-> rc, context |-> ctx,
     answer |-> ans, raw_results |-> raw]

\* answer_question is entered; generate_sparql builds its prompt and calls
\* self.llm.generate
EnterAnswerQuestion(q, v) ==
    /\ pc = "idle"
    /\ pc' = "llm_gen"
    /\ question' = q
    /\ verbose' = v
    /\ attempt' = 0
    /\ llm_response' = <<>>
    /\ sparql_query' = PyNone
    /\ entities_used' = PyNone
    /\ relations_used' = PyNone
    /\ explanation' = PyNone
    /\ results' = PyNone
    /\ bindings' = PyNone
    /\ results_count' = -1
    /\ context' = <<>>
    /\ user_prompt' = <<>>
    /\ answer' = <<>>
    /\ outcome' = Pending
    /\ calls' = [NoCalls EXCEPT !.generate_sparql = 1, !.llm_generate = 1]
    /\ hist' = NoHist
    /\ responses' = NoResponses

\* answer_question called on the chatbot by a caller other than the program
AnswerQuestion(q, v) == EnterAnswerQuestion(q, v) /\ UNCHANGED <<outsideVars, thread>>

\* STEP 1 once generate_sparql has returned or raised (gs), self.llm.generate
\* having returned or raised llm_result
HandleGenerated(llm_result, gs) ==
    LET displayed == /\ ~gs.raised
                     /\ verbose
                     /\ \/ JoinRaises(DictGet(gs.val, K_entities_used))
                        \/ JoinRaises(DictGet(gs.val, K_relations_used))
        exc == IF gs.raised THEN gs.exc ELSE "TypeError"
    IN /\ pc = "llm_gen"
       /\ llm_response' = llm_result.val
       /\ responses' = [responses EXCEPT !.gen = TextResponse(llm_result)]
       /\ hist' = [hist EXCEPT
                     !.llm_gen = IF llm_result.raised THEN "raised" ELSE "returned",
                     !.gen = IF gs.raised THEN "raised" ELSE "returned"]
       /\ IF gs.raised
          THEN UNCHANGED <<sparql_query, entities_used, relations_used, explanation>>
          ELSE /\ sparql_query' = DictGet(gs.val, K_sparql_query)
               /\ entities_used' = DictGet(gs.val, K_entities_used)
               /\ relations_used' = DictGet(gs.val, K_relations_used)
               /\ explanation' = DictGet(gs.val, K_explanation)
       /\ IF gs.raised \/ displayed
          THEN /\ outcome' = GenerationFailure(exc, question)
               /\ pc' = "done"
          ELSE /\ outcome' = outcome
               /\ pc' = "executing"
       /\ UNCHANGED <<outsideVars, argVars, execVars, context, user_prompt, answer>>

\* STEP 1 once self.llm.generate has returned or raised inside generate_sparql
GenerationStep(llm_result) == HandleGenerated(llm_result, generate_sparql(llm_result))

\* self.llm is a substitute: the call returns any text or raises
StubGenerate ==
    /\ pc = "llm_gen"
    /\ llm_impl = "Stub"
    /\ \/ \E text \in GenerationTexts : GenerationStep(Return(text))
       \/ \E e \in StubExceptions : GenerationStep([Raise(e) EXCEPT !.val = <<>>])
    /\ UNCHANGED <<attempt, calls>>

\* self.llm is the repository's client: one HTTP attempt of _generate_local
LocalGenerate ==
    /\ pc = "llm_gen"
    /\ llm_impl = "FrenchLLMClient"
    /\ attempt < max_retries
    /\ \E http \in {HttpCompletion(t) : t \in GenerationTexts}
                   \cup {HttpCompletionFailure(e) : e \in HttpFailures} :
         LET r == _generate_local(max_retries, attempt, http)
         IN /\ attempt' = r.attempt
            /\ calls' = [calls EXCEPT !.llm_http = @ + 1]
            /\ IF r.done
               THEN GenerationStep(Return(r.text))
               ELSE UNCHANGED <<pc, outsideVars, argVars, genVars, execVars, context,
                                user_prompt, answer, outcome, hist, responses>>

\* the body of the try block of STEP 2 after self.graphdb.query returned v:
\* "none" (the early Failure return), the bindings and their count, or raised
ReadResults(v) ==
    LET has == PyIn("results", v)
        inner == Subscript(v, "results")
        b == IF inner.raised THEN inner ELSE Subscript(inner.val, "bindings")
        n == IF b.raised THEN b ELSE PyLen(b.val)
    IN IF ~Truthy(v) THEN [kind |-> "none", exc |-> "", bindings |-> PyNone, count |-> -1]
       ELSE IF has.raised
            THEN [kind |-> "raised", exc |-> has.exc, bindings |-> PyNone, count |-> -1]
       ELSE IF ~has.val.b THEN [kind |-> "none", exc |-> "", bindings |-> PyNone, count |-> -1]
       ELSE IF n.raised THEN [kind |-> "raised", exc |-> n.exc, bindings |-> PyNone, count |-> -1]
       ELSE [kind |-> "ok", exc |-> "", bindings |-> b.val, count |-> n.val]

\* the except block of STEP 2: where answer_question goes, and with what
ExecutionErrorEscapes(e) == [pc |-> "escaped", outcome |-> Pending]
ExecutionErrorExit(e) ==
    [pc |-> "done", outcome |-> ExecutionFailure(e, question, sparql_query)]

\* STEP 2 once the try block has been left with rr, self.graphdb.query having
\* returned or raised query_result
HandleExecuted(query_result, rr) ==
    /\ pc = "executing"
    /\ calls' = [calls EXCEPT !.graphdb_query = @ + 1]
    /\ results' = IF query_result.raised THEN results ELSE query_result.val
    /\ responses' = [responses EXCEPT !.exec = query_result]
    /\ bindings' = IF rr.kind = "ok" THEN rr.bindings ELSE bindings
    /\ results_count' = IF rr.kind = "ok" THEN rr.count ELSE results_count
    /\ outcome' = CASE rr.kind = "ok" -> outcome
                    [] rr.kind = "none" -> NoResultsFailure(question, sparql_query)
                    [] rr.kind = "raised" -> ExecutionErrorExit(rr.exc).outcome
    /\ pc' = CASE rr.kind = "ok" -> "building"
               [] rr.kind = "none" -> "done"
               [] rr.kind = "raised" -> ExecutionErrorExit(rr.exc).pc
    /\ UNCHANGED <<outsideVars, argVars, attempt, genVars, context, user_prompt, answer>>

\* STEP 2 once self.graphdb.query has returned or raised
ExecutionStep(query_result) ==
    HandleExecuted(query_result,
                   IF query_result.raised
                   THEN [kind |-> "raised", exc |-> query_result.exc,
                         bindings |-> PyNone, count |-> -1]
                   ELSE ReadResults(query_result.val))

\* self.graphdb is a substitute: the call returns any value or raises
ExecuteStub ==
    /\ pc = "executing"
    /\ graphdb_impl = "Stub"
    /\ \/ \E i \in 1..Len(ExecValues) :
            /\ ExecutionStep(Return(ExecValues[i]))
            /\ hist' = [hist EXCEPT !.exec = "returned"]
       \/ \E e \in StubExceptions :
            /\ ExecutionStep(Raise(e))
            /\ hist' = [hist EXCEPT !.exec = "raised"]

\* self.graphdb is the repository's client: one HTTP request, then query's
\* own exception handling
ExecuteGraphDB ==
    /\ pc = "executing"
    /\ graphdb_impl = "GraphDBClient"
    /\ \/ \E i \in 1..Len(ExecValues) :
            LET r == query(HttpResponse(ExecValues[i]))
            IN /\ ExecutionStep(r)
               /\ hist' = [hist EXCEPT
                             !.exec = IF r.raised THEN "raised" ELSE "returned",
                             !.exec_http = "ok"]
       \/ \E e \in GraphDBFailures :
            LET r == query(HttpFailure(e))
            IN /\ ExecutionStep(r)
               /\ hist' = [hist EXCEPT
                             !.exec = IF r.raised THEN "raised" ELSE "returned",
                             !.exec_http = e]

\* the except block of STEP 3: "Use raw bindings as fallback"
ContextFallbackEmpty(b) == <<>>
ContextFallback(b) == PyStrOf(b)

\* STEP 3: self.context_builder.format_results returns a text or raises
ContextStep(format_result) ==
    /\ pc = "building"
    /\ calls' = [calls EXCEPT !.format_results = @ + 1]
    /\ hist' = [hist EXCEPT !.fmt = IF format_result.raised THEN "raised" ELSE "returned"]
    /\ responses' = [responses EXCEPT !.fmt = TextResponse(format_result)]
    /\ context' = IF format_result.raised THEN ContextFallback(bindings)
                  ELSE format_result.val
    /\ pc' = "synthesizing"
    /\ UNCHANGED <<outsideVars, argVars, attempt, genVars, execVars, user_prompt, answer,
                   outcome>>

BuildContext ==
    \/ \E text \in ContextTexts : ContextStep(Return(text))
    \/ \E e \in StubExceptions : ContextStep(Raise(e))

\* the user prompt with the context branch taken whatever the count
AnswerPromptAlwaysContext(q, ctx, count) ==
    <<"Question:", SP>> \o q
    \o <<NL, NL, "Contexte du graphe de connaissances (", ToString(count),
         " resultats trouves):", NL>>
    \o ctx
    \o <<NL, NL, "Reponds a la question en te basant uniquement sur ce contexte.",
         NL, "Sois precis, informatif et naturel. Structure ta reponse de maniere claire.">>

\* the user prompt with the no-data branch taken whatever the count
AnswerPromptNeverContext(q, ctx, count) ==
    <<"Question:", SP>> \o q
    \o <<NL, NL, "Contexte: Aucune donnee trouvee dans le graphe de connaissances.",
         NL, NL,
         "Reponds poliment que tu n'as pas trouve d'informations pour repondre a cette question.",
         NL,
         "Suggere que les donnees recherchees n'existent peut-etre pas encore dans la base.">>

\* the user prompt of _generate_answer
AnswerPrompt(q, ctx, count) ==
    IF count = 0
    THEN <<"Question:", SP>> \o q
         \o <<NL, NL, "Contexte: Aucune donnee trouvee dans le graphe de connaissances.",
              NL, NL,
              "Reponds poliment que tu n'as pas trouve d'informations pour repondre a cette question.",
              NL,
              "Suggere que les donnees recherchees n'existent peut-etre pas encore dans la base.">>
    ELSE <<"Question:", SP>> \o q
         \o <<NL, NL, "Contexte du graphe de connaissances (", ToString(count),
              " resultats trouves):", NL>>
         \o ctx
         \o <<NL, NL, "Reponds a la question en te basant uniquement sur ce contexte.",
              NL, "Sois precis, informatif et naturel. Structure ta reponse de maniere claire.">>

\* STEP 4 with a core that calls self.llm.generate again when it gets no text
GenerateAnswerRepeating ==
    /\ pc \in {"synthesizing", "llm_synth"}
    /\ pc = "llm_synth" => calls.llm_generate < 3
    /\ user_prompt' = AnswerPrompt(question, context, results_count)
    /\ attempt' = 0
    /\ calls' = [calls EXCEPT !.generate_answer = 1, !.llm_generate = @ + 1]
    /\ pc' = "llm_synth"
    /\ UNCHANGED <<outsideVars, argVars, genVars, execVars, context,
                   answer, outcome, hist, responses>>

\* STEP 4 begins: _generate_answer builds its prompt and calls self.llm.generate
GenerateAnswer ==
    /\ pc = "synthesizing"
    /\ user_prompt' = AnswerPrompt(question, context, results_count)
    /\ attempt' = 0
    /\ calls' = [calls EXCEPT !.generate_answer = @ + 1, !.llm_generate = @ + 1]
    /\ pc' = "llm_synth"
    /\ UNCHANGED <<outsideVars, argVars, genVars, execVars, context,
                   answer, outcome, hist, responses>>

\* the substitute answer with the context not truncated
FallbackAnswerWholeContext(count, ctx) ==
    IF count > 0
    THEN <<"J'ai trouve ", ToString(count),
           " resultat(s), mais je n'ai pas pu generer une reponse naturelle. Voici les donnees brutes: ">>
         \o ctx \o <<"...">>
    ELSE <<"Je n'ai pas trouve de resultats pour cette question.">>

\* the substitute answer of the except block of STEP 4
FallbackAnswer(count, ctx) ==
    IF count > 0
    THEN <<"J'ai trouve ", ToString(count),
           " resultat(s), mais je n'ai pas pu generer une reponse naturelle. Voici les donnees brutes: ">>
         \o Slice(ctx, ExcerptLen) \o <<"...">>
    ELSE <<"Je n'ai pas trouve de resultats pour cette question.">>

\* STEP 4 with an except block that gives up as STEP 2 does
SynthesisStepAborting(llm_result) ==
    /\ pc = "llm_synth"
    /\ responses' = [responses EXCEPT !.synth = TextResponse(llm_result)]
    /\ answer' = IF llm_result.raised THEN answer ELSE llm_result.val
    /\ outcome' = IF llm_result.raised
                  THEN [success |-> FALSE,
                        error |-> <<"Erreur generation reponse:", llm_result.exc>>,
                        question |-> question, sparql_query |-> sparql_query]
                  ELSE Success(question, sparql_query, entities_used, relations_used,
                               explanation, results_count, context, llm_result.val,
                               results)
    /\ pc' = "done"
    /\ UNCHANGED <<outsideVars, argVars, genVars, execVars, context, user_prompt>>

\* STEP 4 and STEP 5 once self.llm.generate has returned or raised inside
\* _generate_answer
SynthesisStep(llm_result) ==
    /\ pc = "llm_synth"
    /\ responses' = [responses EXCEPT !.synth = TextResponse(llm_result)]
    /\ answer' = IF llm_result.raised
                 THEN FallbackAnswer(results_count, context)
                 ELSE llm_result.val
    /\ outcome' = Success(question, sparql_query, entities_used, relations_used,
                          explanation, results_count, context, answer', results)
    /\ pc' = "done"
    /\ UNCHANGED <<outsideVars, argVars, genVars, execVars, context, user_prompt>>

StubSynthesize ==
    /\ pc = "llm_synth"
    /\ llm_impl = "Stub"
    /\ \/ \E text \in SynthesisTexts :
            /\ SynthesisStep(Return(text))
            /\ hist' = [hist EXCEPT !.llm_synth = "returned", !.synth = "returned"]
       \/ \E e \in StubExceptions :
            /\ SynthesisStep(Raise(e))
            /\ hist' = [hist EXCEPT !.llm_synth = "raised", !.synth = "raised"]
    /\ UNCHANGED <<attempt, calls>>

LocalSynthesize ==
    /\ pc = "llm_synth"
    /\ llm_impl = "FrenchLLMClient"
    /\ attempt < max_retries
    /\ \E http \in {HttpCompletion(t) : t \in SynthesisTexts}
                   \cup {HttpCompletionFailure(e) : e \in HttpFailures} :
         LET r == _generate_local(max_retries, attempt, http)
         IN /\ attempt' = r.attempt
            /\ calls' = [calls EXCEPT !.llm_http = @ + 1]
            /\ IF r.done
               THEN /\ SynthesisStep(Return(r.text))
                    /\ hist' = [hist EXCEPT
                                  !.llm_synth = IF http.ok THEN "returned" ELSE "exhausted",
                                  !.synth = "returned"]
               ELSE UNCHANGED <<pc, outsideVars, argVars, genVars, execVars, context,
                                user_prompt, answer, outcome, hist, responses>>

\* answer_question has returned; the chatbot is ready for the next question
ReturnOutcome ==
    /\ pc = "done"
    /\ pc' = "idle"
    /\ UNCHANGED <<outsideVars, argVars, attempt, genVars, execVars,
                   context, user_prompt, answer, outcome, calls, hist, responses>>

Next ==
    \/ \E q \in Questions, v \in BOOLEAN : AnswerQuestion(q, v)
    \/ StubGenerate
    \/ LocalGenerate
    \/ ExecuteStub
    \/ ExecuteGraphDB
    \/ BuildContext
    \/ GenerateAnswer
    \/ StubSynthesize
    \/ LocalSynthesize
    \/ ReturnOutcome

Spec == Init /\ [][Next]_vars

\* Every step of answer_question is synchronous code or a request with a
\* timeout (REQUEST_TIMEOUT), so a started invocation keeps taking steps.
FairSpec == Spec /\ WF_vars(Next)

\* ------------------------------------------------------------------------
\* Two threads that call answer_question on the same chatbot
\* ------------------------------------------------------------------------
\* the frame of the running invocation: its arguments, its locals, its position
Frame ==
    [thread |-> thread, pc |-> pc, question |-> question, verbose |-> verbose,
     attempt |-> attempt, llm_response |-> llm_response, sparql_query |-> sparql_query,
     entities_used |-> entities_used, relations_used |-> relations_used,
     explanation |-> explanation, results |-> results, bindings |-> bindings,
     results_count |-> results_count, context |-> context, user_prompt |-> user_prompt,
     answer |-> answer, outcome |-> outcome, calls |-> calls, hist |-> hist,
     responses |-> responses]

\* the interpreter switch of a chatbot that keeps the question in a field of
\* the object instead of a local of answer_question
SwitchSharingQuestion ==
    /\ suspended # NoThread
    /\ suspended' = Frame
    /\ thread' = suspended.thread
    /\ pc' = suspended.pc
    /\ question' = question
    /\ verbose' = suspended.verbose
    /\ attempt' = suspended.attempt
    /\ llm_response' = suspended.llm_response
    /\ sparql_query' = suspended.sparql_query
    /\ entities_used' = suspended.entities_used
    /\ relations_used' = suspended.relations_used
    /\ explanation' = suspended.explanation
    /\ results' = suspended.results
    /\ bindings' = suspended.bindings
    /\ results_count' = suspended.results_count
    /\ context' = suspended.context
    /\ user_prompt' = suspended.user_prompt
    /\ answer' = suspended.answer
    /\ outcome' = suspended.outcome
    /\ calls' = suspended.calls
    /\ hist' = suspended.hist
    /\ responses' = suspended.responses
    /\ UNCHANGED <<implVars, directVars, toolVars>>

\* the interpreter hands the processor to the other thread: the running frame
\* is set aside and the other one resumes.  The fields of the objects are not
\* part of a frame.  A step of the model is what one thread does between two
\* calls of a collaborator; it only reads and writes its own frame.
Switch ==
    /\ suspended # NoThread
    /\ suspended' = Frame
    /\ thread' = suspended.thread
    /\ pc' = suspended.pc
    /\ question' = suspended.question
    /\ verbose' = suspended.verbose
    /\ attempt' = suspended.attempt
    /\ llm_response' = suspended.llm_response
    /\ sparql_query' = suspended.sparql_query
    /\ entities_used' = suspended.entities_used
    /\ relations_used' = suspended.relations_used
    /\ explanation' = suspended.explanation
    /\ results' = suspended.results
    /\ bindings' = suspended.bindings
    /\ results_count' = suspended.results_count
    /\ context' = suspended.context
    /\ user_prompt' = suspended.user_prompt
    /\ answer' = suspended.answer
    /\ outcome' = suspended.outcome
    /\ calls' = suspended.calls
    /\ hist' = suspended.hist
    /\ responses' = suspended.responses
    /\ UNCHANGED <<implVars, directVars, toolVars>>

\* the chatbot with the repository's clients or with substitutes, thread 1
\* running and thread 2 waiting, neither having called answer_question yet
ConcurrentInit ==
    /\ pc = "idle"
    /\ \/ llm_impl = "FrenchLLMClient" /\ graphdb_impl = "GraphDBClient"
       \/ llm_impl = "Stub" /\ graphdb_impl = "Stub"
    /\ ontology_summary = OntologySummary
    /\ thread = 1
    /\ llm_response = <<>>
    /\ NoInvocation
    /\ NoDirectCall
    /\ NoTools
    /\ suspended = [Frame EXCEPT !.thread = 2]

\* the question each thread asks
QuestionOf(t) ==
    IF t = 1 THEN <<"Quels", SP, "chevaux", "?">> ELSE <<"What", SP, "sensors", "?">>
\* response r is absent, the exception RuntimeError, or one of the given texts
OneOf(r, texts) ==
    \/ r.exc = "-"
    \/ r.raised /\ r.exc = "RuntimeError"
    \/ ~r.raised /\ r.exc = "" /\ r.val \in texts
\* the two-thread runs: the collaborator responses they are limited to, and at
\* most MaxHttpRequests requests of the completion client per invocation
MaxHttpRequests == 2
NarrowResponses ==
    /\ calls.llm_http <= MaxHttpRequests
    /\ OneOf(responses.gen, {WellFormedCompletion, ListCompletion})
    /\ \/ responses.exec.exc \in {"-", "RuntimeError"}
       \/ ~responses.exec.raised /\ responses.exec.val = PyNone
       \/ ~responses.exec.raised /\ responses.exec.val = EmptyResult
       \/ ~responses.exec.raised /\ responses.exec.val = AskResult
       \/ ~responses.exec.raised /\ responses.exec.val = SelectResult(1)
    /\ OneOf(responses.fmt, {<<"Aucun", SP, "resultat">>})
    /\ OneOf(responses.synth, {<<"Dakota", SP, "porte", SP, "un", SP, "capteur", ".">>})
\* the running thread enters answer_question with its own question
OwnQuestion == pc = "idle" => question' = QuestionOf(thread) /\ ~verbose'

\* the outcome answer_question(q, v) returns when the completion client, the
\* graph client and the context builder respond r.gen, r.exec, r.fmt and
\* r.synth, computed in one piece from the arguments and the responses alone
OutcomeAlone(q, v, r) ==
    LET gs == generate_sparql(r.gen)
        displayed == /\ ~gs.raised
                     /\ v
                     /\ \/ JoinRaises(DictGet(gs.val, K_entities_used))
                        \/ JoinRaises(DictGet(gs.val, K_relations_used))
        sq == DictGet(gs.val, K_sparql_query)
        rr == IF r.exec.raised
              THEN [kind |-> "raised", exc |-> r.exec.exc, bindings |-> PyNone, count |-> -1]
              ELSE ReadResults(r.exec.val)
        ctx == IF r.fmt.raised THEN ContextFallback(rr.bindings) ELSE r.fmt.val
        ans == IF r.synth.raised THEN FallbackAnswer(rr.count, ctx) ELSE r.synth.val
    IN CASE gs.raised -> GenerationFailure(gs.exc, q)
         [] ~gs.raised /\ displayed -> GenerationFailure("TypeError", q)
         [] ~gs.raised /\ ~displayed /\ rr.kind = "none" -> NoResultsFailure(q, sq)
         [] ~gs.raised /\ ~displayed /\ rr.kind = "raised" ->
                ExecutionFailure(rr.exc, q, sq)
         [] OTHER ->
                Success(q, sq, DictGet(gs.val, K_entities_used),
                        DictGet(gs.val, K_relations_used), DictGet(gs.val, K_explanation),
                        rr.count, ctx, ans, r.exec.val)

ConcurrentSpec ==
    ConcurrentInit /\ [][(Next /\ OwnQuestion /\ NarrowResponses') \/ Switch]_vars

\* ------------------------------------------------------------------------
\* Direct calls of IntelligentSPARQLGenerator.generate_sparql, one per
\* completion text the service may hand back
\* ------------------------------------------------------------------------
ParserInit ==
    /\ pc = "direct"
    /\ llm_impl = "Stub"
    /\ graphdb_impl = "Stub"
    /\ Constructed
    /\ llm_response \in DirectTexts
    /\ NoInvocation
    /\ NoDirectCall
    /\ NoTools

GenerateDirect ==
    /\ pc = "direct"
    /\ descriptor' = generate_sparql(Return(llm_response))
    /\ pc' = "direct_done"
    /\ UNCHANGED <<implVars, argVars, attempt, genVars, execVars, context, user_prompt,
                   answer, outcome, calls, hist, responses, suspended, max_retries,
                   http_log, client_result, toolVars>>

ParserSpec == ParserInit /\ [][GenerateDirect]_vars

\* ------------------------------------------------------------------------
\* Direct calls of LLMClient.generate, for each value MAX_RETRIES may be given
\* ------------------------------------------------------------------------
MaxRetriesSetting == 3

ClientInit ==
    /\ pc = "client"
    /\ llm_impl = "FrenchLLMClient"
    /\ graphdb_impl = "Stub"
    /\ Constructed
    /\ llm_response = <<>>
    /\ NoInvocation
    /\ descriptor = NotCalled
    /\ max_retries \in 0..MaxRetriesSetting
    /\ http_log = <<>>
    /\ client_result = NotCalled
    /\ NoTools

\* one pass of the loop: the request, then the return or the next pass
ClientRequest ==
    /\ pc = "client"
    /\ attempt < max_retries
    /\ \E http \in {HttpCompletion(t) : t \in GenerationTexts \cup SynthesisTexts}
                   \cup {HttpCompletionFailure(e) : e \in HttpFailures} :
         LET r == _generate_local(max_retries, attempt, http)
         IN /\ attempt' = r.attempt
            /\ http_log' = Append(http_log, http)
            /\ client_result' = IF r.done THEN Return(r.text) ELSE client_result
            /\ pc' = IF r.done THEN "client_done" ELSE pc
    /\ UNCHANGED <<implVars, argVars, genVars, execVars, context, user_prompt, answer,
                   outcome, calls, hist, responses, suspended, descriptor, max_retries,
                   toolVars>>

\* range(MAX_RETRIES) is empty: the return after the loop
ClientNoRequest ==
    /\ pc = "client"
    /\ max_retries <= 0
    /\ client_result' = Return(<<>>)
    /\ pc' = "client_done"
    /\ UNCHANGED <<implVars, argVars, attempt, genVars, execVars, context, user_prompt,
                   answer, outcome, calls, hist, responses, suspended, descriptor,
                   max_retries, http_log, toolVars>>

ClientSpec == ClientInit /\ [][ClientRequest \/ ClientNoRequest]_vars

\* ------------------------------------------------------------------------
\* Direct calls of GraphDBClient.query and GraphDBClient.test_connection, the
\* store answering the request with any body or the request failing
\* ------------------------------------------------------------------------
\* the frame of the pipeline, unused by the tools
PipelineIdle ==
    /\ llm_impl = "Stub"
    /\ graphdb_impl = "GraphDBClient"
    /\ Constructed
    /\ llm_response = <<>>
    /\ NoInvocation
    /\ NoDirectCall
pipelineVars ==
    <<pc, argVars, attempt, genVars, execVars, context, user_prompt, answer, outcome,
      calls, hist, responses, implVars, directVars, suspended>>

StoreInit ==
    /\ pc = "store"
    /\ PipelineIdle
    /\ NoTools

\* self.query(sparql_query), the request ending as http
StoreQuery(http) ==
    /\ pc = "store"
    /\ store_http' = http
    /\ store_result' = query(http)
    /\ connected' = NotCalled
    /\ UNCHANGED <<pipelineVars, sessionVars, rdfVars>>

\* self.test_connection(), the request of its count query ending as http
TestConnection(http) ==
    /\ pc = "store"
    /\ store_http' = http
    /\ store_result' = query(http)
    /\ connected' = Return(PyBool(test_connection(query(http).val)))
    /\ UNCHANGED <<pipelineVars, sessionVars, rdfVars>>

StoreNext ==
    \/ \E i \in 1..Len(StoreBodies) : StoreQuery(HttpResponse(StoreBodies[i]))
    \/ \E e \in GraphDBFailures : StoreQuery(HttpFailure(e))
    \/ \E i \in 1..Len(StoreBodies) : TestConnection(HttpResponse(StoreBodies[i]))
    \/ \E e \in GraphDBFailures : TestConnection(HttpFailure(e))

StoreSpec == StoreInit /\ [][StoreNext]_vars

\* ------------------------------------------------------------------------
\* The program intelligent_chatbot.py: __main__ and the interactive loop
\* chat(), around the chatbot __init__ builds (GraphDBClient, FrenchLLMClient)
\* ------------------------------------------------------------------------
\* str.lower() on the words the command lists name
Lower(lex) ==
    CASE lex \in {"QUIT", "Quit"} -> "quit"
      [] lex \in {"EXIT", "Exit"} -> "exit"
      [] lex = "Quitter" -> "quitter"
      [] lex \in {"BYE", "Bye"} -> "bye"
      [] lex = "Au" -> "au"
      [] lex = "Revoir" -> "revoir"
      [] lex \in {"HELP", "Help"} -> "help"
      [] lex = "Aide" -> "aide"
      [] OTHER -> lex
lower(s) == [i \in 1..Len(s) |-> Lower(s[i])]

QuitCommands ==
    {<<"quit">>, <<"exit">>, <<"quitter">>, <<"bye">>, <<"au", SP, "revoir">>}
HelpCommands == {<<"help">>, <<"aide">>, <<"?">>}

\* what the user types at the prompt
BlankLines == {<<>>, <<SP>>, <<TAB, SP>>}
QuitLines ==
    {<<"quit">>, <<"QUIT">>, <<SP, "Exit", SP>>, <<"quitter">>, <<"Bye">>,
     <<"au", SP, "revoir">>, <<"Au", SP, "Revoir", NL>>}
HelpLines == {<<"help">>, <<"Aide">>, <<"?">>, <<SP, "HELP">>}
QuestionLines ==
    {<<SP, "Quels", SP, "chevaux", "?">>, <<"au", SP, SP, "revoir">>,
     <<"quit", SP, "help">>}
ChatLines == BlankLines \cup QuitLines \cup HelpLines \cup QuestionLines

\* the values of --question: absent, empty, a question
QuestionOptions == {PyNone, PyStr(<<>>), PyStr(<<"Quels", SP, "chevaux", "?">>)}

\* exceptions that reach the handlers of chat() and of __main__: Ctrl-C, and an
\* Exception raised outside the try blocks of answer_question (a print to a
\* stream that cannot encode the text) or by input() at the end of the stream
Escaping == {"KeyboardInterrupt", "UnicodeEncodeError"}
InputErrors == {"KeyboardInterrupt", "EOFError"}

SessionInit ==
    /\ pc = "idle"
    /\ llm_impl = "FrenchLLMClient"
    /\ graphdb_impl = "GraphDBClient"
    /\ Constructed
    /\ llm_response = <<>>
    /\ NoInvocation
    /\ NoDirectCall
    /\ NoStoreCall
    /\ NoRdfPipeline
    /\ session_pc = "main"
    /\ args \in [question : QuestionOptions, quiet : BOOLEAN]
    /\ chat_line = <<>>
    /\ chat_kind = "-"
    /\ invoked = 0
    /\ reported = FALSE
    /\ exit_status = -1
    /\ printed = NothingPrinted

\* what the steps of the program leave alone
besideSession == <<implVars, directVars, storeVars, rdfVars, suspended, thread>>
frameVars ==
    <<question, verbose, attempt, genVars, execVars, context, user_prompt, answer,
      outcome, calls, hist, responses>>
chatVars == <<chat_line, chat_kind, invoked, reported>>

\* the frame of answer_question is gone: its result was dropped, or an
\* exception unwound it
DropFrame ==
    /\ pc' = "idle"
    /\ question' = <<>>
    /\ verbose' = FALSE
    /\ attempt' = 0
    /\ llm_response' = <<>>
    /\ sparql_query' = PyNone
    /\ entities_used' = PyNone
    /\ relations_used' = PyNone
    /\ explanation' = PyNone
    /\ results' = PyNone
    /\ bindings' = PyNone
    /\ results_count' = -1
    /\ context' = <<>>
    /\ user_prompt' = <<>>
    /\ answer' = <<>>
    /\ outcome' = Pending
    /\ calls' = NoCalls
    /\ hist' = NoHist
    /\ responses' = NoResponses

\* the handlers of __main__: KeyboardInterrupt exits with 0, any other
\* exception is printed as fatal and exits with 1
MainHandler(e) ==
    /\ session_pc' = "exited"
    /\ exit_status' = IF e = "KeyboardInterrupt" THEN 0 ELSE 1
    /\ printed' = IF e = "KeyboardInterrupt"
                    THEN [kind |-> "bye", text |-> <<"Au revoir!">>]
                    ELSE [kind |-> "fatal", text |-> <<"Erreur fatale:", SP, e>>]

\* IntelligentEquestrianChatbot() raises
MainConstructorRaises(e) ==
    /\ session_pc = "main"
    /\ MainHandler(e)
    /\ UNCHANGED <<pc, frameVars, besideSession, args, chatVars>>

\* --question holds a question: answer_question(args.question, not args.quiet)
MainSingleQuestion ==
    /\ session_pc = "main"
    /\ Truthy(args.question)
    /\ EnterAnswerQuestion(args.question.s, ~args.quiet)
    /\ session_pc' = "cli_answering"
    /\ UNCHANGED <<besideSession, args, chatVars, exit_status, printed>>

\* no question on the command line: chatbot.chat()
MainInteractive ==
    /\ session_pc = "main"
    /\ ~Truthy(args.question)
    /\ session_pc' = "prompt"
    /\ UNCHANGED <<pc, frameVars, besideSession, args, chatVars, exit_status, printed>>

\* answer_question has returned result to __main__; a failure exits with a
\* zero status when it is taken for a success
MainFinishAlwaysZero ==
    /\ session_pc = "cli_answering"
    /\ pc = "done"
    /\ pc' = "idle"
    /\ session_pc' = "exited"
    /\ printed' = IF args.quiet /\ outcome.success
                    THEN [kind |-> "answer", text |-> outcome.answer]
                    ELSE IF ~outcome.success
                           THEN [kind |-> "error",
                                 text |-> <<"Erreur:", SP>> \o outcome.error]
                           ELSE NothingPrinted
    /\ exit_status' = 0
    /\ UNCHANGED <<frameVars, besideSession, args, chatVars>>
MainFinish ==
    /\ session_pc = "cli_answering"
    /\ pc = "done"
    /\ pc' = "idle"
    /\ session_pc' = "exited"
    /\ printed' = IF args.quiet /\ outcome.success
                    THEN [kind |-> "answer", text |-> outcome.answer]
                    ELSE IF ~outcome.success
                           THEN [kind |-> "error",
                                 text |-> <<"Erreur:", SP>> \o outcome.error]
                           ELSE NothingPrinted
    /\ exit_status' = IF ~outcome.success THEN 1 ELSE 0
    /\ UNCHANGED <<frameVars, besideSession, args, chatVars>>

\* an exception leaves answer_question, or the print that follows it, in
\* single-question mode
MainRaises(e) ==
    /\ session_pc = "cli_answering"
    /\ pc # "idle"
    /\ DropFrame
    /\ MainHandler(e)
    /\ UNCHANGED <<besideSession, args, chatVars>>

\* one pass of the loop of chat() up to the call of answer_question: input()
\* returns line; a quit command accepted only as typed, in lower case
ChatReadCaseSensitive(line) ==
    LET q == strip(line)
        kind == IF q = <<>> THEN "blank"
                ELSE IF q \in QuitCommands THEN "quit"
                ELSE IF lower(q) \in HelpCommands THEN "help"
                ELSE "question"
    IN /\ session_pc = "prompt"
       /\ chat_line' = line
       /\ chat_kind' = kind
       /\ reported' = FALSE
       /\ UNCHANGED <<besideSession, args, printed>>
       /\ IF kind = "question"
            THEN /\ EnterAnswerQuestion(q, TRUE)
                 /\ invoked' = 1
                 /\ session_pc' = "chat_answering"
                 /\ UNCHANGED exit_status
            ELSE /\ invoked' = 0
                 /\ session_pc' = IF kind = "quit" THEN "exited" ELSE "prompt"
                 /\ exit_status' = IF kind = "quit" THEN 0 ELSE exit_status
                 /\ UNCHANGED <<pc, frameVars>>
\* one pass of the loop of chat() up to the call of answer_question: input()
\* returns line; break returns to __main__, which ends with status 0
ChatRead(line) ==
    LET q == strip(line)
        kind == IF q = <<>> THEN "blank"
                ELSE IF lower(q) \in QuitCommands THEN "quit"
                ELSE IF lower(q) \in HelpCommands THEN "help"
                ELSE "question"
    IN /\ session_pc = "prompt"
       /\ chat_line' = line
       /\ chat_kind' = kind
       /\ reported' = FALSE
       /\ UNCHANGED <<besideSession, args, printed>>
       /\ IF kind = "question"
            THEN /\ EnterAnswerQuestion(q, TRUE)
                 /\ invoked' = 1
                 /\ session_pc' = "chat_answering"
                 /\ UNCHANGED exit_status
            ELSE /\ invoked' = 0
                 /\ session_pc' = IF kind = "quit" THEN "exited" ELSE "prompt"
                 /\ exit_status' = IF kind = "quit" THEN 0 ELSE exit_status
                 /\ UNCHANGED <<pc, frameVars>>

\* the handlers of the loop: KeyboardInterrupt breaks, any other exception is
\* printed and the loop goes on
ChatHandler(e) ==
    /\ session_pc' = IF e = "KeyboardInterrupt" THEN "exited" ELSE "prompt"
    /\ exit_status' = IF e = "KeyboardInterrupt" THEN 0 ELSE exit_status
    /\ reported' = (e # "KeyboardInterrupt")

\* input() raises
ChatInputRaises(e) ==
    /\ session_pc = "prompt"
    /\ chat_line' = <<>>
    /\ chat_kind' = IF e = "KeyboardInterrupt" THEN "interrupt" ELSE "input_error"
    /\ invoked' = 0
    /\ ChatHandler(e)
    /\ UNCHANGED <<pc, frameVars, besideSession, args, printed>>

\* answer_question has returned to the loop, which drops the result
ChatAnswered ==
    /\ session_pc = "chat_answering"
    /\ pc = "done"
    /\ DropFrame
    /\ session_pc' = "prompt"
    /\ UNCHANGED <<besideSession, args, chatVars, exit_status, printed>>

\* an exception leaves answer_question in the loop: Ctrl-C at any point, an
\* Exception before the function has returned
ChatAnswerRaises(e) ==
    /\ session_pc = "chat_answering"
    /\ pc # "idle"
    /\ e # "KeyboardInterrupt" => pc # "done"
    /\ DropFrame
    /\ chat_kind' = IF e = "KeyboardInterrupt" THEN "interrupt" ELSE chat_kind
    /\ ChatHandler(e)
    /\ UNCHANGED <<besideSession, args, chat_line, invoked, printed>>

\* the steps answer_question takes once entered
AnswerSteps ==
    \/ LocalGenerate
    \/ ExecuteGraphDB
    \/ BuildContext
    \/ GenerateAnswer
    \/ LocalSynthesize

SessionNext ==
    \/ \E e \in Escaping : MainConstructorRaises(e)
    \/ MainSingleQuestion
    \/ MainInteractive
    \/ MainFinish
    \/ \E e \in Escaping : MainRaises(e)
    \/ \E line \in ChatLines : ChatRead(line)
    \/ \E e \in InputErrors : ChatInputRaises(e)
    \/ ChatAnswered
    \/ \E e \in Escaping : ChatAnswerRaises(e)
    \/ AnswerSteps

SessionSpec == SessionInit /\ [][SessionNext]_vars

\* ------------------------------------------------------------------------
\* Experiment 001: RDFLLMPipeline (rdf_llm.py)
\* ------------------------------------------------------------------------
MaxTriples == 3
MaxLimit == 4

\* the triples a file may hold
Triple(n) == [s |-> <<"h:Horse", n>>, p |-> <<"rdf:type">>, o |-> <<"h:Class", n>>]
Triples == {Triple(n) : n \in 1..MaxTriples}

\* the contents of the file at rdf_file_path, in the order the parser adds them
RdfFiles ==
    {f \in SeqsUpTo(Triples, MaxTriples) : \A i, j \in 1..Len(f) : f[i] = f[j] => i = j}

\* Graph.add: a triple already in the graph is not added again
RECURSIVE AddAll(_, _, _)
AddAll(graph, file, i) ==
    IF i > Len(file) THEN graph
    ELSE AddAll(IF \E j \in 1..Len(graph) : graph[j] = file[i]
                  THEN graph ELSE Append(graph, file[i]),
                file, i + 1)

\* what self.graph.parse does: it adds the triples of the file, or raises
\* after it has added those that precede the error
ParseErrors == {"FileNotFoundError", "ParserError"}
Parses(file) ==
    {[outcome |-> "ok", added |-> file]}
    \cup {[outcome |-> e, added |-> SubSeq(file, 1, k)] :
            e \in ParseErrors, k \in 0..Len(file)}

\* load_rdf with parsing that raises reported by an exception
LoadRdfRaising(parse) ==
    IF parse.outcome = "ok" THEN Return(PyBool(TRUE)) ELSE Raise(parse.outcome)
\* load_rdf: True after parse, False when parse raises
load_rdf(parse) ==
    IF parse.outcome = "ok" THEN Return(PyBool(TRUE)) ELSE Return(PyBool(FALSE))

\* the dict extract_triples_sample builds for one triple
TripleDict(t) ==
    PyDict(<<Key("subject"), Key("predicate"), Key("object")>>,
           <<PyStr(t.s), PyStr(t.p), PyStr(t.o)>>)

\* the loop of extract_triples_sample from the i-th triple (counted from 0)
RECURSIVE SampleLoop(_, _, _, _)
SampleLoop(graph, i, limit, triples) ==
    IF i >= Len(graph) \/ i >= limit THEN triples
    ELSE SampleLoop(graph, i + 1, limit, Append(triples, TripleDict(graph[i + 1])))

extract_triples_sample(graph, limit) == Return(PyList(SampleLoop(graph, 0, limit, <<>>)))

\* what self.graph.query does: one row per matching triple, or it raises
QueryErrors == {"ParseException", "TypeError"}
QueryRun(graph, ending, k) ==
    IF ending = "ok"
    THEN [outcome |-> "ok", rows |-> [i \in 1..k |-> PyList(<<PyStr(graph[i].s)>>)]]
    ELSE [outcome |-> ending, rows |-> <<>>]

\* query_sparql: the rows as a list, the empty list when query raises
query_sparql(run) ==
    IF run.outcome = "ok" THEN Return(PyList(run.rows)) ELSE Return(PyList(<<>>))

\* the bodies Ollama answers with, once response.json() has parsed them
OllamaBodies ==
    <<PyDict(<<Key("response")>>, <<PyStr(<<"Trois", SP, "chevaux", ".">>)>>),
      PyDict(<<Key("response")>>, <<PyStr(<<>>)>>),
      PyDict(<<Key("response"), Key("done")>>, <<PyNone, PyBool(TRUE)>>),
      PyDict(<<Key("error")>>, <<PyStr(<<"model", SP, "not", SP, "found">>)>>),
      EmptyDict,
      PyList(<<>>),
      PyStr(<<"ok">>),
      PyNone>>
OllamaFailures == {"ConnectionError", "Timeout", "HTTPError", "JSONDecodeError"}

ConnectionErrorText ==
    PyStr(<<"Erreur:", SP, "Impossible de se connecter a Ollama.", SP,
            "Assurez-vous qu'Ollama est lance (ollama serve)">>)
ErrorText(e) == PyStr(<<"Erreur:", SP, e>>)

\* ask_llm with the exceptions of the request left to the caller
AskLlmRaising(http) ==
    IF http.kind # "ok" THEN Raise(http.kind)
    ELSE IF http.body.t # "dict" THEN Raise("AttributeError")
    ELSE IF DictHas(http.body, Key("response"))
           THEN Return(DictGet(http.body, Key("response")))
           ELSE Return(PyStr(<<"Pas de reponse">>))
\* ask_llm, the request ending as http: result.get("response", ...) of the
\* parsed body, the text of the error when anything raised
ask_llm(http) ==
    IF http.kind = "ConnectionError" THEN Return(ConnectionErrorText)
    ELSE IF http.kind # "ok" THEN Return(ErrorText(http.kind))
    ELSE IF http.body.t # "dict" THEN Return(ErrorText("AttributeError"))
    ELSE IF DictHas(http.body, Key("response"))
           THEN Return(DictGet(http.body, Key("response")))
           ELSE Return(PyStr(<<"Pas de reponse">>))

\* RDFLLMPipeline(rdf_file_path): self.graph = Graph()
RdfInit ==
    /\ pc = "rdf"
    /\ PipelineIdle
    /\ NoStoreCall
    /\ NoSession
    /\ NoRdfPipeline

rdfIdle == <<pipelineVars, storeVars, sessionVars>>

LoadRdf(parse) ==
    /\ pc = "rdf"
    /\ rdf_graph' = AddAll(rdf_graph, parse.added, 1)
    /\ rdf_op' = "load_rdf"
    /\ rdf_arg' = [limit |-> 0, outcome |-> parse.outcome]
    /\ rdf_result' = load_rdf(parse)
    /\ UNCHANGED rdfIdle

ExtractTriplesSample(limit) ==
    /\ pc = "rdf"
    /\ rdf_op' = "extract_triples_sample"
    /\ rdf_arg' = [limit |-> limit, outcome |-> "ok"]
    /\ rdf_result' = extract_triples_sample(rdf_graph, limit)
    /\ UNCHANGED <<rdfIdle, rdf_graph>>

QuerySparql(ending, k) ==
    /\ pc = "rdf"
    /\ k <= Len(rdf_graph)
    /\ rdf_op' = "query_sparql"
    /\ rdf_arg' = [limit |-> 0, outcome |-> ending]
    /\ rdf_result' = query_sparql(QueryRun(rdf_graph, ending, k))
    /\ UNCHANGED <<rdfIdle, rdf_graph>>

AskLlm(http) ==
    /\ pc = "rdf"
    /\ rdf_op' = "ask_llm"
    /\ rdf_arg' = [limit |-> 0, outcome |-> http.kind]
    /\ rdf_result' = ask_llm(http)
    /\ UNCHANGED <<rdfIdle, rdf_graph>>

RdfNext ==
    \/ \E f \in RdfFiles : \E parse \in Parses(f) : LoadRdf(parse)
    \/ \E limit \in 0..MaxLimit : ExtractTriplesSample(limit)
    \/ \E k \in 0..MaxTriples : QuerySparql("ok", k)
    \/ \E e \in QueryErrors : QuerySparql(e, 0)
    \/ \E i \in 1..Len(OllamaBodies) : AskLlm(HttpResponse(OllamaBodies[i]))
    \/ \E e \in OllamaFailures : AskLlm(HttpFailure(e))

RdfSpec == RdfInit /\ [][RdfNext]_vars

\* ------------------------------------------------------------------------
\* Properties
\* ------------------------------------------------------------------------
Returned == pc \in {"done", "idle"} /\ outcome # Pending
IsSuccess == Returned /\ outcome.success
IsFailure == Returned /\ ~outcome.success

\* the dict is a Success (success = True, an answer, no error) or a Failure
\* (success = False, an error, no answer), never both
SingleOutcome ==
    /\ pc \in {"idle", "llm_gen", "executing", "building", "synthesizing", "llm_synth",
               "done"}
    /\ pc = "done" =>
         /\ "success" \in DOMAIN outcome
         /\ outcome.success \in BOOLEAN
         /\ outcome.success => "answer" \in DOMAIN outcome /\ "error" \notin DOMAIN outcome
         /\ ~outcome.success => "error" \in DOMAIN outcome /\ "answer" \notin DOMAIN outcome

C2_GenerateNeverRaises ==
    hist.llm_gen = "returned" => hist.gen # "raised"

\* C3: when the completion service returned a text, a Failure outcome comes from
\* the execution stage only: the executor was called and the error is one of the
\* two execution errors.
C3_OnlyExecutionFails ==
    (IsFailure /\ hist.llm_gen = "returned") =>
        /\ calls.graphdb_query = 1
        /\ outcome.error[1] \in {"Erreur GraphDB:", "Pas de resultats de GraphDB"}

\* C4: if the executor call raises, the outcome is a Failure of the execution
\* stage carrying the question and the generated query text, and neither the
\* context formatter nor the synthesizer is invoked.
C4_ExecutorRaiseIsFailure ==
    hist.exec = "raised" =>
        /\ IsFailure
        /\ outcome.error[1] = "Erreur GraphDB:"
        /\ outcome.question = question
        /\ "sparql_query" \in DOMAIN outcome
        /\ outcome.sparql_query = sparql_query
        /\ sparql_query.t = "str"
        /\ calls.format_results = 0
        /\ calls.generate_answer = 0

C4_Witness ==
    /\ pc = "done"
    /\ hist.exec = "raised"
    /\ hist.gen = "returned"

\* C5: with GraphDBClient as the executor, a transport or store-side error makes
\* answer_question return a Failure carrying the generated query, never a
\* Success.
C5_TransportErrorIsFailure ==
    (Returned /\ hist.exec_http \in GraphDBFailures) =>
        /\ ~outcome.success
        /\ "sparql_query" \in DOMAIN outcome

\* the instruction of the 'no information found' branch of the synthesis prompt
NoInformationInstruction ==
    "Reponds poliment que tu n'as pas trouve d'informations pour repondre a cette question."

\* C6: a well-formed result with zero bindings does not fail the invocation:
\* context building and synthesis run, the synthesis prompt is the 'no
\* information found' one (the instruction, and no context embedded), and the
\* outcome is a Success with results_count = 0.
C6_ZeroBindingsIsSuccess ==
    results_count = 0 =>
        /\ pc \in {"building", "synthesizing", "llm_synth", "done", "idle"}
        /\ pc \in {"llm_synth", "done", "idle"} =>
             /\ calls.format_results = 1
             /\ calls.generate_answer = 1
             /\ Contains(user_prompt, <<NoInformationInstruction>>)
             /\ Contains(user_prompt, question)
             /\ context = <<>> \/ ~Contains(user_prompt, context)
        /\ pc \in {"done", "idle"} =>
             /\ IsSuccess
             /\ outcome.results_count = 0

C6_Witness ==
    /\ pc = "done"
    /\ results_count = 0
    /\ hist.exec = "returned"
    /\ outcome.success

\* C7: if the context formatter raises, the context is the raw dump of the
\* bindings (a bracketed list showing every binding), synthesis is invoked with
\* it, and the outcome is a Success carrying it.
C7_FormatterRaiseDegrades ==
    hist.fmt = "raised" =>
        /\ pc \in {"synthesizing", "llm_synth", "done", "idle"}
        /\ Len(context) >= 2
        /\ context[1] = "["
        /\ context[Len(context)] = "]"
        /\ \A i \in 1..results_count : Contains(context, <<"Dakota", ToString(i)>>)
        /\ pc \in {"llm_synth", "done", "idle"} =>
             /\ calls.generate_answer = 1
             /\ results_count > 0 => Contains(user_prompt, context)
        /\ pc \in {"done", "idle"} =>
             /\ IsSuccess
             /\ outcome.context = context

C7_Witness ==
    /\ pc = "done"
    /\ hist.fmt = "raised"
    /\ results_count > 0
    /\ outcome.success

\* C8: if the synthesis call raises, the outcome is a Success whose answer is
\* the substitute: with results, it reports results_count and an excerpt that is
\* the first min(200, len(context)) characters of the context; without, it is
\* the fixed message.
C8_SynthesisRaiseSubstitutes ==
    hist.synth = "raised" =>
        /\ IsSuccess
        /\ outcome.answer = answer
        /\ IF results_count > 0
           THEN /\ Len(answer) >= 4
                /\ answer[2] = ToString(results_count)
                /\ Len(answer) - 4 = Min(ExcerptLen, Len(context))
                /\ \A i \in 1..(Len(answer) - 4) : answer[3 + i] = context[i]
                /\ answer[Len(answer)] = "..."
           ELSE answer = <<"Je n'ai pas trouve de resultats pour cette question.">>

C8_Witness ==
    /\ pc = "done"
    /\ hist.synth = "raised"
    /\ results_count > 0
    /\ Len(context) > ExcerptLen

\* C9: when the completion service gives up during synthesis (the empty string
\* after its retries), the Success outcome carries the substitute answer, not an
\* empty one.
C9_ExhaustedSynthesisSubstitutes ==
    (Returned /\ hist.llm_synth = "exhausted") =>
        /\ outcome.success
        /\ outcome.answer # <<>>

GeneratedField(k) == DictGet(generate_sparql(Return(llm_response)).val, k)
ReturnedBindings == Subscript(Subscript(results, "results").val, "bindings").val

SuccessFields ==
    {"success", "question", "sparql_query", "entities_used", "relations_used",
     "explanation", "results_count", "context", "answer", "raw_results"}

\* C11: a Success outcome has every diagnostic field set (sparql_query,
\* entities_used, relations_used, explanation, results_count, context, answer,
\* raw_results), results_count being the number of bindings the executor returned
\* and the query fields those of the generated descriptor; a Failure outcome
\* carries only what the completed stages produced: an execution failure carries
\* the generated query, and no failure carries a context or an answer.
C11_OutcomeFields ==
    pc = "done" =>
        /\ outcome.success =>
             /\ DOMAIN outcome = SuccessFields
             /\ outcome.question = question
             /\ outcome.sparql_query = GeneratedField(K_sparql_query)
             /\ outcome.entities_used = GeneratedField(K_entities_used)
             /\ outcome.relations_used = GeneratedField(K_relations_used)
             /\ outcome.explanation = GeneratedField(K_explanation)
             /\ outcome.raw_results = results
             /\ outcome.results_count = Len(ReturnedBindings.items)
             /\ hist.fmt = "returned" => outcome.context \in ContextTexts
             /\ outcome.context = context
             /\ outcome.answer = answer
        /\ ~outcome.success =>
             /\ DOMAIN outcome \subseteq {"success", "error", "question", "sparql_query"}
             /\ calls.format_results = 0
             /\ calls.generate_answer = 0
             /\ calls.graphdb_query = 0 <=> "sparql_query" \notin DOMAIN outcome
             /\ calls.graphdb_query > 0 =>
                  outcome.sparql_query = GeneratedField(K_sparql_query)

C11_Witness ==
    /\ pc = "done"
    /\ outcome.success
    /\ outcome.results_count = 2
    /\ Len(ReturnedBindings.items) = 2

\* what json.loads makes of the completion text once the markdown is removed
ParsedCompletion == json_loads(StripMarkdown(strip(llm_response)))
IsJsonObject == ParsedCompletion.ok /\ ParsedCompletion.val.t = "dict"
HasQueryField ==
    /\ IsJsonObject
    /\ DictHas(ParsedCompletion.val, K_sparql_query)
    /\ DictGet(ParsedCompletion.val, K_sparql_query).t = "str"
QueryField == DictGet(ParsedCompletion.val, K_sparql_query).s
DirectReturned == pc = "direct_done" /\ ~descriptor.raised
DescriptorField(k) == DictGet(descriptor.val, k)
FallbackExplanation == PyStr(<<"Requete extraite (JSON invalide)">>)

\* C12: for a completion that is a JSON object with a non-blank query field, the
\* generated query is that field with each backslash-n replaced by a newline and
\* each backslash-t by a tab; and a query whose newlines and tabs were escaped
\* that way before being written into the JSON comes back as the original query.
C12_UnescapeRoundTrip ==
    pc = "direct_done" =>
        /\ (HasQueryField /\ strip(QueryField) # <<>>) =>
             /\ ~descriptor.raised
             /\ DescriptorField(K_sparql_query) = PyStr(Unescape(QueryField))
        /\ \A q \in Queries :
             (strip(q) # <<>> /\ llm_response = RoundTripCompletion(q)) =>
                 /\ ~descriptor.raised
                 /\ DescriptorField(K_sparql_query) = PyStr(q)

\* C13: a JSON object wrapped in a markdown fence, json-tagged or untagged, with
\* or without prose around it, is parsed as if it stood alone, through the
\* structured path; next to an untagged fenced block, before or after it, the
\* json-tagged block is the one that is parsed.
C13_FenceStripped ==
    pc = "direct_done" =>
        \A t \in FencedObjects :
            llm_response \in Wrappings(t) =>
                /\ ParsedCompletion = json_loads(t)
                /\ descriptor = generate_sparql(Return(t))
                /\ ~descriptor.raised
                /\ DescriptorField(K_explanation) # FallbackExplanation
                /\ DescriptorField(K_sparql_query) = PyStr(Unescape(QueryField))

C13_Witness ==
    /\ pc = "direct_done"
    /\ \E t \in FencedObjects, o \in OtherBlocks :
          /\ llm_response = Untagged(o) \o <<NL>> \o Tagged(t)
          /\ json_loads(o).ok
          /\ descriptor = generate_sparql(Return(t))

\* C14: every descriptor generate_sparql returns has a query text that is a
\* string with something other than whitespace in it, whether it comes from the
\* JSON object, from a fragment found in prose or from the basic fallback query.
C14_QueryNeverBlank ==
    DirectReturned =>
        /\ DescriptorField(K_sparql_query).t = "str"
        /\ strip(DescriptorField(K_sparql_query).s) # <<>>

C14_Witness ==
    /\ DirectReturned
    /\ ~ParsedCompletion.ok
    /\ SearchSelectPattern(llm_response).found
    /\ DescriptorField(K_sparql_query) # PyStr(DefaultQuery)

\* C15: when the completion text (the empty string of a completion client that
\* gave up included) is not JSON and holds no query fragment, generate_sparql
\* returns the basic fallback query (every triple, LIMIT 10) with empty entity and
\* relation lists, the same descriptor at every such invocation, and
\* answer_question goes on to execute it.
C15_DefaultQueryExecuted ==
    (/\ hist.llm_gen = "returned"
     /\ ~ParsedCompletion.ok
     /\ ~SearchPrefixPattern(llm_response).found
     /\ ~SearchSelectPattern(llm_response).found) =>
        /\ hist.gen = "returned"
        /\ sparql_query = PyStr(DefaultQuery)
        /\ Contains(sparql_query.s, <<"?subject", SP, "?predicate", SP, "?object", SP, ".">>)
        /\ Contains(sparql_query.s, <<"LIMIT", SP, "10">>)
        /\ entities_used = PyList(<<>>)
        /\ relations_used = PyList(<<>>)
        /\ explanation = FallbackExplanation
        /\ pc = "executing" \/ calls.graphdb_query = 1

C15_Witness ==
    /\ llm_impl = "FrenchLLMClient"
    /\ calls.llm_http = MAX_RETRIES
    /\ hist.llm_gen = "returned"
    /\ llm_response = <<>>
    /\ sparql_query = PyStr(DefaultQuery)
    /\ calls.graphdb_query = 1

\* C18: for a completion that is a JSON object without a query field, or with
\* one that is blank, the descriptor is the one of a JSON parsing failure: the
\* query of the fallback extraction, empty entity and relation lists and the
\* explanation that says the query was extracted.
C18_BlankQueryIsFallback ==
    (/\ pc = "direct_done"
     /\ IsJsonObject
     /\ \/ ~DictHas(ParsedCompletion.val, K_sparql_query)
        \/ HasQueryField /\ strip(QueryField) = <<>>) =>
        /\ ~descriptor.raised
        /\ DescriptorField(K_sparql_query) = PyStr(_extract_sparql_fallback(llm_response))
        /\ DescriptorField(K_entities_used) = PyList(<<>>)
        /\ DescriptorField(K_relations_used) = PyList(<<>>)
        /\ DescriptorField(K_explanation) = FallbackExplanation

\* the default of each optional field
FieldDefault(k) ==
    IF k = K_explanation THEN PyStr(<<"Requete generee">>) ELSE PyList(<<>>)

\* C19: when the completion is a JSON object, each of entities_used,
\* relations_used and explanation that the object lacks is returned with its
\* default (empty list, empty list, "Requete generee") and each one it has is
\* returned as it is; a non-blank query field is returned with its newlines and
\* tabs unescaped and otherwise unchanged.
C19_DefaultsFilled ==
    (DirectReturned /\ IsJsonObject) =>
        /\ \A k \in {K_entities_used, K_relations_used, K_explanation} :
              DescriptorField(k) =
                  IF DictHas(ParsedCompletion.val, k)
                  THEN DictGet(ParsedCompletion.val, k)
                  ELSE FieldDefault(k)
        /\ (HasQueryField /\ strip(Unescape(QueryField)) # <<>>) =>
              DescriptorField(K_sparql_query) = PyStr(Unescape(QueryField))

C19_Witness ==
    /\ DirectReturned
    /\ HasQueryField
    /\ strip(Unescape(QueryField)) # <<>>
    /\ DictHas(ParsedCompletion.val, K_entities_used)
    /\ DescriptorField(K_entities_used) = PyNum("7")
    /\ ~DictHas(ParsedCompletion.val, K_explanation)
    /\ DescriptorField(K_explanation) = PyStr(<<"Requete generee">>)

\* a WHERE, optional whitespace, an opening brace and later a closing brace,
\* somewhere after position i of text
HasWhereBlock(text, i) ==
    \E w \in (i + 1)..Len(text), b \in (i + 2)..Len(text), c \in (i + 3)..Len(text) :
        /\ w < b /\ b < c
        /\ Upper(text[w]) = "WHERE"
        /\ \A j \in (w + 1)..(b - 1) : text[j] \in Whitespace
        /\ text[b] = LBRACE
        /\ text[c] = RBRACE
\* positions of the SELECTs, and of the PREFIXes followed by one of them, that
\* begin a span the patterns describe
SelectSpans(text) ==
    {i \in 1..Len(text) : Upper(text[i]) = "SELECT" /\ HasWhereBlock(text, i)}
PrefixSpans(text) ==
    {i \in 1..Len(text) :
        /\ Upper(text[i]) = "PREFIX"
        /\ \E j \in SelectSpans(text) : i < j}
\* q is a span of text that begins at position i, unescaped
IsSpanFrom(q, text, i) ==
    \E j \in i..Len(text) : text[j] = RBRACE /\ q = Unescape(SubSeq(text, i, j))
First(S) == CHOOSE i \in S : \A j \in S : i <= j

\* C20: in the fallback extraction, a PREFIX ... SELECT ... WHERE { ... } span
\* wins and the result starts at its PREFIX; a SELECT ... WHERE { ... } span is
\* taken only when there is no such PREFIX span; the basic fallback query is
\* returned only when there is neither; the span is returned with backslash-n and
\* backslash-t unescaped.
C20_MatcherOrder ==
    (DirectReturned /\ ~ParsedCompletion.ok) =>
        LET q == DescriptorField(K_sparql_query).s
            pre == PrefixSpans(llm_response)
            sel == SelectSpans(llm_response)
        IN /\ pre # {} => IsSpanFrom(q, llm_response, First(pre))
           /\ (pre = {} /\ sel # {}) => IsSpanFrom(q, llm_response, First(sel))
           /\ (pre = {} /\ sel = {}) <=> q = DefaultQuery
           /\ q # DefaultQuery =>
                 /\ ~Contains(q, <<BSL, "n">>)
                 /\ ~Contains(q, <<BSL, "t">>)

C20_Witness ==
    /\ DirectReturned
    /\ ~ParsedCompletion.ok
    /\ PrefixSpans(llm_response) # {}
    /\ First(SelectSpans(llm_response)) < First(PrefixSpans(llm_response))
    /\ Contains(llm_response, <<BSL, "n">>)
    /\ Upper(DescriptorField(K_sparql_query).s[1]) = "PREFIX"

\* C17: a direct call of generate does not raise on a request error, makes at
\* most MAX_RETRIES requests and none after a successful one, returns the content
\* of the successful request, and returns the empty string when every request
\* failed, which with MAX_RETRIES = 0 means at once.
C17_ClientBoundedRetries ==
    /\ Len(http_log) <= max_retries
    /\ \A i \in 1..(Len(http_log) - 1) : ~http_log[i].ok
    /\ pc = "client" => \A i \in 1..Len(http_log) : ~http_log[i].ok
    /\ pc = "client_done" =>
         /\ ~client_result.raised
         /\ IF http_log # <<>> /\ http_log[Len(http_log)].ok
            THEN client_result.val = http_log[Len(http_log)].content
            ELSE /\ client_result.val = <<>>
                 /\ Len(http_log) = max_retries

\* C17 as stated: besides the above, the empty string is returned exactly when
\* every attempt failed, so never after a successful attempt.
C17_EmptyExactlyWhenAllFailed ==
    /\ C17_ClientBoundedRetries
    /\ (pc = "client_done" /\ client_result.val = <<>>) =>
          \A i \in 1..Len(http_log) : ~http_log[i].ok

C17_Witness ==
    /\ pc = "client_done"
    /\ max_retries = MAX_RETRIES
    /\ Len(http_log) = MAX_RETRIES
    /\ \A i \in 1..Len(http_log) : ~http_log[i].ok
    /\ client_result = Return(<<>>)

\* frame f, once its invocation has returned, holds the outcome the invocation
\* gets alone from its own question and the responses it received
ReturnedAlone(f) ==
    f.pc \in {"done", "idle"} /\ f.outcome # Pending
        => f.outcome = OutcomeAlone(QuestionOf(f.thread), f.verbose, f.responses)

\* C16: answer_question changes no field of the chatbot, the generator (the
\* ontology summary included) or the clients, and whatever the interleaving of
\* two concurrent invocations with independent questions, each returns the
\* outcome it gets alone with the same collaborator responses.
C16_InterleavingIndependent ==
    /\ [][UNCHANGED implVars]_vars
    /\ [](ReturnedAlone(Frame) /\ ReturnedAlone(suspended))

\* one invocation has returned a Success while the other thread's invocation,
\* for another question, is between two of its steps
C16_Witness ==
    /\ pc = "done"
    /\ outcome.success
    /\ suspended.pc \in {"executing", "building", "synthesizing", "llm_synth"}
    /\ suspended.question # question
    /\ suspended.responses.gen.exc # "-"

\* number of occurrences of lexeme x in s
RECURSIVE Count(_, _)
Count(s, x) ==
    IF s = <<>> THEN 0 ELSE (IF Head(s) = x THEN 1 ELSE 0) + Count(Tail(s), x)
\* position of the brace that closes the group which is depth levels deep at
\* position i, 0 when the group is not closed
RECURSIVE ClosingBrace(_, _, _)
ClosingBrace(s, i, depth) ==
    IF i > Len(s) THEN 0
    ELSE IF s[i] = LBRACE THEN ClosingBrace(s, i + 1, depth + 1)
    ELSE IF s[i] = RBRACE
         THEN IF depth = 1 THEN i ELSE ClosingBrace(s, i + 1, depth - 1)
    ELSE ClosingBrace(s, i + 1, depth)
\* the first span the patterns describe, and the brace that opens and the brace
\* that closes its WHERE block
SpanStart(text) ==
    IF PrefixSpans(text) # {} THEN First(PrefixSpans(text)) ELSE First(SelectSpans(text))
WhereBrace(text) ==
    FindWhereBrace(text, First({i \in SelectSpans(text) : i >= SpanStart(text)}) + 1)
WhereBlockEnd(text) == ClosingBrace(text, WhereBrace(text) + 1, 1)
\* the query that begins the first span: through the closing brace of its WHERE
\* block, no brace standing before the block
BalancedQuery(text) == SubSeq(text, SpanStart(text), WhereBlockEnd(text))
HasBalancedQuery(text) ==
    /\ SelectSpans(text) # {}
    /\ WhereBlockEnd(text) # 0
    /\ Count(SubSeq(text, SpanStart(text), WhereBrace(text) - 1), LBRACE) = 0
    /\ Count(SubSeq(text, SpanStart(text), WhereBrace(text) - 1), RBRACE) = 0

\* C21: when the fallback extraction finds a query whose WHERE block is closed,
\* nested brace groups included, the extracted text runs through the brace that
\* closes the WHERE block: it has as many closing as opening braces and ends at
\* that brace, not at the first closing brace.
C21_SpanIsBalanced ==
    (DirectReturned /\ ~ParsedCompletion.ok /\ HasBalancedQuery(llm_response)) =>
        LET q == DescriptorField(K_sparql_query).s
        IN /\ Count(q, LBRACE) = Count(q, RBRACE)
           /\ q = Unescape(strip(BalancedQuery(llm_response)))

\* how far an invocation has got
StageRank ==
    CASE pc = "idle" -> 0
      [] pc = "llm_gen" -> 1
      [] pc = "executing" -> 2
      [] pc = "building" -> 3
      [] pc = "synthesizing" -> 4
      [] pc = "llm_synth" -> 5
      [] pc = "done" -> 6
\* the calls the core has made of generate_sparql, of self.llm.generate, of
\* self.graphdb.query, of format_results and of _generate_answer
CoreCalls ==
    <<calls.generate_sparql, calls.llm_generate, calls.graphdb_query,
      calls.format_results, calls.generate_answer>>

\* C22: within one invocation the stages run in the order generation, execution,
\* context building, synthesis, each at most once and each after the previous one
\* has returned; the core calls the completion service once for generation and
\* once for synthesis, and the executor once, on a run that reaches Success, and
\* never calls a second time to retry.
C22_StagesInOrderOnce ==
    /\ [][pc' # pc => \/ StageRank' > StageRank
                      \/ pc = "done" /\ pc' = "idle"]_vars
    /\ [](CASE pc = "idle" -> TRUE
            [] pc \in {"llm_gen", "executing"} -> CoreCalls = <<1, 1, 0, 0, 0>>
            [] pc = "building" -> CoreCalls = <<1, 1, 1, 0, 0>>
            [] pc = "synthesizing" -> CoreCalls = <<1, 1, 1, 1, 0>>
            [] pc = "llm_synth" -> CoreCalls = <<1, 2, 1, 1, 1>>
            [] pc = "done" ->
                 /\ outcome.success => CoreCalls = <<1, 2, 1, 1, 1>>
                 /\ CoreCalls \in {<<1, 1, 0, 0, 0>>, <<1, 1, 1, 0, 0>>, <<1, 2, 1, 1, 1>>})

\* a Success after the repository's client retried its request inside both
\* calls: the core still called it once for each
C22_Witness ==
    /\ pc = "done"
    /\ outcome.success
    /\ llm_impl = "FrenchLLMClient"
    /\ calls.llm_http >= 4
    /\ CoreCalls = <<1, 2, 1, 1, 1>>

\* _generate_answer has been called and has built its prompt
PromptBuilt == pc \in {"llm_synth", "done"} /\ calls.generate_answer = 1

\* C23: _generate_answer builds its user prompt by result count: with no result
\* the prompt holds the question and the instruction to say that no information
\* was found and that the data may not exist yet, and not the context; with
\* results it holds the count and the context; either way the completion service
\* is called once and the text it returns is the answer, unchanged.
C23_PromptByCount ==
    PromptBuilt =>
        /\ Contains(user_prompt, <<"Question:", SP>> \o question)
        /\ results_count = 0 =>
             /\ Contains(user_prompt, <<NoInformationInstruction>>)
             /\ Contains(user_prompt,
                  <<"Suggere que les donnees recherchees n'existent peut-etre pas encore dans la base.">>)
             /\ ~Contains(user_prompt, context)
        /\ results_count > 0 =>
             /\ Contains(user_prompt,
                  <<ToString(results_count), " resultats trouves):", NL>> \o context)
             /\ ~Contains(user_prompt, <<NoInformationInstruction>>)
        /\ calls.llm_generate = 2
        /\ (pc = "done" /\ ~responses.synth.raised) =>
             /\ answer = responses.synth.val
             /\ outcome.answer = responses.synth.val

\* a synthesis for results that were found, the context being longer than the
\* excerpt the substitute answer would keep
C23_Witness ==
    /\ pc = "done"
    /\ results_count > 0
    /\ Len(context) > ExcerptLen
    /\ ~responses.synth.raised
    /\ outcome.answer # <<>>

\* C24: if the generation call raises inside answer_question, the invocation
\* stops there: the query executor, the context formatter and the synthesizer
\* are never invoked, and the Failure returned holds success = False, the error
\* message and the question, and nothing else (no query text).
C24_GenerationRaiseShortCircuits ==
    hist.gen = "raised" =>
        /\ pc \in {"done", "idle"}
        /\ calls.graphdb_query = 0
        /\ calls.format_results = 0
        /\ calls.generate_answer = 0
        /\ calls.llm_generate = 1
        /\ responses.exec = NotCalled
        /\ DOMAIN outcome = {"success", "error", "question"}
        /\ ~outcome.success
        /\ outcome.error[1] = "Erreur lors de la generation SPARQL:"
        /\ outcome.question = question

\* the completion service raised inside generate_sparql and the invocation has
\* returned
C24_Witness ==
    /\ pc = "done"
    /\ hist.llm_gen = "raised"
    /\ hist.gen = "raised"
    /\ ~outcome.success

\* v is an empty value, a dict without 'results', or a dict whose 'results' is a
\* dict without 'bindings'
LacksBindings(v) ==
    \/ ~Truthy(v)
    \/ v.t = "dict" /\ ~DictHas(v, Key("results"))
    \/ /\ v.t = "dict"
       /\ DictHas(v, Key("results"))
       /\ DictGet(v, Key("results")).t = "dict"
       /\ ~DictHas(DictGet(v, Key("results")), Key("bindings"))
\* self.graphdb.query has returned a value
ExecutorReturned == ~responses.exec.raised /\ responses.exec.exc = ""

\* C25: if the query executor returns an empty value, a result without a
\* 'results' key or a 'results' entry without 'bindings', answer_question returns
\* a Failure carrying the generated query text, and neither the context
\* formatter nor the synthesizer is invoked.
C25_NoBindingsIsFailure ==
    (ExecutorReturned /\ LacksBindings(responses.exec.val)) =>
        /\ IsFailure
        /\ outcome.error[1] \in {"Pas de resultats de GraphDB", "Erreur GraphDB:"}
        /\ outcome.question = question
        /\ "sparql_query" \in DOMAIN outcome
        /\ outcome.sparql_query = sparql_query
        /\ sparql_query.t = "str"
        /\ calls.format_results = 0
        /\ calls.generate_answer = 0
        /\ calls.llm_generate = 1

\* the executor returned a 'results' entry without 'bindings'
C25_Witness ==
    /\ pc = "done"
    /\ ExecutorReturned
    /\ responses.exec.val = NoBindingsResult
    /\ outcome.error = <<"Erreur GraphDB:", "KeyError">>

\* a direct call of the graph client has been made, and its request failed
StoreCalled == store_result.exc # "-"
RequestFailed == StoreCalled /\ store_http.kind \in GraphDBFailures

\* C26: GraphDBClient.query never raises on a request error: on a connection
\* error, a timeout, an HTTP error status or an undecodable body it returns the
\* empty result {results: {bindings: []}}, which is what it returns for a
\* successful query with zero bindings.
C26_QueryErrorsAreEmptyResults ==
    /\ StoreCalled => ~store_result.raised
    /\ RequestFailed =>
         /\ store_result.val = EmptyResult
         /\ store_result = query(HttpResponse(EmptyResult))
         /\ ReadResults(store_result.val).kind = "ok"
         /\ ReadResults(store_result.val).count = 0

\* a direct call of query whose response body could not be decoded
C26_Witness ==
    /\ store_http.kind = "JSONDecodeError"
    /\ connected.exc = "-"
    /\ store_result.exc = ""
    /\ store_result.val = EmptyResult

\* v holds at least one binding, the first of which holds a count with a value
HoldsCount(v) ==
    /\ v.t = "dict"
    /\ DictHas(v, Key("results"))
    /\ DictGet(v, Key("results")).t = "dict"
    /\ DictHas(DictGet(v, Key("results")), Key("bindings"))
    /\ LET b == DictGet(DictGet(v, Key("results")), Key("bindings"))
       IN /\ b.t = "list"
          /\ Len(b.items) >= 1
          /\ b.items[1].t = "dict"
          /\ DictHas(b.items[1], Key("count"))
          /\ DictGet(b.items[1], Key("count")).t = "dict"
          /\ DictHas(DictGet(b.items[1], Key("count")), Key("value"))

\* C27: GraphDBClient.test_connection never raises, returns True only when the
\* count query returned at least one binding holding a count value, and returns
\* False when the store is unreachable or times out.
C27_TestConnectionCounts ==
    connected.exc # "-" =>
        /\ ~connected.raised
        /\ connected.val.t = "bool"
        /\ connected.val.b => HoldsCount(store_result.val)
        /\ RequestFailed => ~connected.val.b
        /\ store_http.kind \in {"ConnectionError", "Timeout"} => ~connected.val.b

\* test_connection has answered True for a count of zero triples
C27_Witness ==
    /\ connected.exc = ""
    /\ connected.val.b
    /\ store_http.kind = "ok"
    /\ HoldsCount(store_result.val)
    /\ Len(DictGet(DictGet(store_result.val, Key("results")), Key("bindings")).items) = 2

\* ------------------------------------------------------------------------
\* The interactive loop and the single-question mode
\* ------------------------------------------------------------------------
\* input() returned the line the loop took last
InputTaken == chat_kind \in {"blank", "quit", "help", "question"}
TypedBlank == \A i \in 1..Len(chat_line) : chat_line[i] \in Whitespace
TypedQuit == lower(strip(chat_line)) \in QuitCommands
TypedHelp == lower(strip(chat_line)) \in HelpCommands
LoopRunning == session_pc \in {"prompt", "chat_answering"}

\* C28: in the loop of chat(), a blank input and the help commands never
\* invoke answer_question; a quit command (quit, exit, quitter, bye, au
\* revoir, in any case) or a keyboard interrupt ends the loop and nothing else
\* does; every other input invokes answer_question exactly once, with the
\* stripped input and verbose output; an exception raised while answering is
\* reported and the loop goes on.
C28_ChatLoop ==
    /\ [](InputTaken /\ (TypedBlank \/ TypedHelp) =>
            invoked = 0 /\ session_pc = "prompt" /\ pc = "idle")
    /\ [](InputTaken /\ TypedQuit => invoked = 0 /\ session_pc = "exited")
    /\ [](chat_kind = "interrupt" => session_pc = "exited")
    /\ [](InputTaken /\ ~TypedBlank /\ ~TypedHelp /\ ~TypedQuit =>
            /\ invoked = 1
            /\ session_pc # "exited"
            /\ session_pc = "chat_answering" =>
                 /\ question = strip(chat_line)
                 /\ verbose
                 /\ calls.generate_sparql = 1)
    /\ [](reported => session_pc = "prompt")
    /\ [][LoopRunning /\ session_pc' = "exited" =>
            chat_kind' \in {"quit", "interrupt"}]_vars
    /\ [][LoopRunning /\ calls'.generate_sparql > calls.generate_sparql =>
            session_pc = "prompt" /\ invoked' = 1 /\ chat_kind' = "question"]_vars

\* an input that begins with a quit command was answered, the answer raised,
\* the exception was reported and the loop prompts again
C28_Witness ==
    /\ session_pc = "prompt"
    /\ chat_line = <<"quit", SP, "help">>
    /\ chat_kind = "question"
    /\ invoked = 1
    /\ reported

SingleQuestionDone == session_pc = "exited" /\ Truthy(args.question)
ReturnedFailure == IF outcome = Pending THEN FALSE ELSE ~outcome.success
ReturnedSuccess == IF outcome = Pending THEN FALSE ELSE outcome.success

\* C29: in single-question mode the process exits with status 1 exactly when
\* answer_question returned a Failure or a fatal exception occurred, and with
\* 0 otherwise; in quiet mode the answer text is printed exactly for a Success.
C29_ExitStatus ==
    SingleQuestionDone =>
        /\ exit_status \in {0, 1}
        /\ exit_status = 1 <=> (ReturnedFailure \/ printed.kind = "fatal")
        /\ printed.kind = "answer" => args.quiet /\ printed.text = outcome.answer
        /\ args.quiet /\ printed.kind # "fatal" =>
             (printed.kind = "answer" <=> ReturnedSuccess)

\* a quiet run whose outcome is a Failure: the error is printed, the status is 1
C29_Witness ==
    /\ SingleQuestionDone
    /\ args.quiet
    /\ ReturnedFailure
    /\ printed.kind = "error"
    /\ exit_status = 1

\* ------------------------------------------------------------------------
\* Experiment 001: errors as values
\* ------------------------------------------------------------------------
RdfFailed == rdf_arg.outcome # "ok"
IsErrorText(v) == v.t = "str" /\ Len(v.s) >= 1 /\ v.s[1] = "Erreur:"
\* the first n triples of the graph, as extract_triples_sample writes them
FirstTriples(n) == [i \in 1..n |-> TripleDict(rdf_graph[i])]

\* C30: the methods of RDFLLMPipeline report errors as values and never
\* raise: load_rdf returns False when parsing fails and True otherwise;
\* query_sparql returns the empty list when the query fails; ask_llm returns an
\* error string when the request fails; extract_triples_sample(limit) returns
\* exactly min(limit, number of triples in the graph) triples, the first ones
\* the graph yields.
C30_ErrorsAsValues ==
    /\ ~rdf_result.raised
    /\ rdf_op = "load_rdf" => rdf_result.val = PyBool(~RdfFailed)
    /\ rdf_op = "query_sparql" /\ RdfFailed => rdf_result.val = PyList(<<>>)
    /\ rdf_op = "ask_llm" /\ RdfFailed => IsErrorText(rdf_result.val)
    /\ rdf_op = "extract_triples_sample" =>
         /\ rdf_result.val.t = "list"
         /\ Len(rdf_result.val.items) = Min(rdf_arg.limit, Len(rdf_graph))
         /\ rdf_result.val.items = FirstTriples(Min(rdf_arg.limit, Len(rdf_graph)))

\* a sample cut by the limit: two triples out of a graph of three
C30_Witness ==
    /\ rdf_op = "extract_triples_sample"
    /\ Len(rdf_graph) = 3
    /\ rdf_arg.limit = 2
    /\ Len(rdf_result.val.items) = 2

====
